---- MODULE Spec2Model ----
(***************************************************************************)
(* Nordic Energy Dashboard (src/app/main.py): the ingestion pipeline.      *)
(*                                                                         *)
(* Part I  (Spec)      the Schema Migrator init_db run by worker processes *)
(*                     that share one SQLite store, and the start-up       *)
(*                     sequence initialize_app / start_scheduler.          *)
(* Part II (SpecFetch) the upstream fetch cycles and their retry loops.    *)
(* Part III (SpecIngest) the transaction of a grid or price cycle: field  *)
(*                     parsing, the spike filter, INSERT OR REPLACE.       *)
(* Part IV (SpecTasks) the threads of a worker: scheduler jobs,            *)
(*                     ensure_today_prices and its lock, trigger_fetch.    *)
(* Part V  (SpecExchange) the exchange rates in key_value_store.           *)
(* Part VI (SpecParse, SpecNordpool, SpecSweep, SpecSpike) parse_value,   *)
(*                     _fetch_nordpool_day, cleanup_old_data and           *)
(*                     is_spike_value, each called once on bounded inputs; *)
(*                     (SpecShift) price cycles on prices at one level.    *)
(*                                                                         *)
(* SQLite through Python's sqlite3 module (legacy transaction control, the *)
(* default of sqlite3.connect): a transaction is opened implicitly before  *)
(* an INSERT and by nothing else, so a CREATE statement executed while the *)
(* connection has no open transaction is committed on its own, and a       *)
(* CREATE executed inside an open transaction belongs to it.  Closing a    *)
(* connection without commit rolls its open transaction back.  One         *)
(* connection at a time holds the write lock; the others wait for it       *)
(* (timeout=10) or fail with "database is locked".                         *)
(***************************************************************************)
EXTENDS Integers, Sequences, FiniteSets, TLC

VARIABLES
    db,        \* committed store: [objs: schema objects, ledger: rows of schema_version]
    lock,      \* the worker whose connection holds the write lock, or NoWorker
    txn,       \* per worker: the open transaction's uncommitted [objs, rows]
    pc,        \* per worker: position in initialize_app
    cur,       \* per worker: init_db's current_version
    ver,       \* per worker: loop variable v / version of init_db
    stmt,      \* per worker: next statement of the migration function being run
    legacy,    \* per worker: _get_schema_version found no schema_version table
    scheduler, \* per worker: the module global scheduler ("none" or "running")
    jobsRun,   \* per worker: fetch / cleanup functions that have run in the process
    initState, \* per worker: outcome of init_db ("none", "ok", "failed")
    snap,      \* per worker: the committed store when the run read its version
    wrote,     \* per worker: versions the run has INSERTed, in order
    applied,   \* per worker: versions whose migration function the run has called
    durable,   \* per worker: what the run has made durable so far [objs, rows]
    runs,      \* number of init_db runs started so far
    origin,    \* the store before the first run
    \* Part II: one fetch cycle at a time
    kind,      \* the cycle in progress: "grid", "price", "rates" ("none" before the first)
    fpc,       \* position in the cycle: "idle", "request", "decode", "store", "done"
    day,       \* the request of the cycle: 1 (today / the only one), 2 (tomorrow)
    attempt,   \* the retry loop's attempt (0-indexed)
    upstream,  \* per request: what the upstream answers to attempts 1..3
    payload,   \* per request: the price points a decodable answer carries
    tries,     \* per request: the answers to the attempts made
    sleeps,    \* per request: the time.sleep delays, in order
    last_err,  \* the retry loop's last_err
    reported,  \* per request: the error the call failed with, NoError otherwise
    all_results, \* fetch_and_store_prices' all_results
    status,    \* last_fetch_status, last_price_fetch_status, last_exchange_rate_fetch_status
    stored,    \* rows committed to the time-series tables and the key-value table
    cycleRows, \* rows the cycle in progress has committed
    storeFailed, \* the cycle raised while it processed or stored its payload
    cycles,    \* cycles started so far
    \* Part III: the store transaction of a grid or price cycle
    tables,    \* committed rows of energy_status, energy_types, spot_prices
    nextId,    \* per table: the next AUTOINCREMENT id (committed)
    view,      \* the cycle's connection: [open, tables, nextId] with its own writes
    ipc,       \* position in the cycle: "idle", "loop", "commit", "done"
    ikind,     \* the cycle in progress: "grid", "price" ("none" before the first)
    data,      \* the decoded payload: response.json() / all_results
    ts,        \* fetch_and_store_data's timestamp (the minute of the cycle)
    idx,       \* loop position: country index / index into all_results
    judged,    \* the judgements of is_spike_value made by the cycle, in order
    istatus,   \* last_fetch_status / last_price_fetch_status
    now,       \* the wall clock, in minutes
    icycles,   \* cycles started so far
    atStart,   \* the committed tables when the cycle in progress started
    \* Part IV: the threads of one worker process
    tpc,       \* per thread: position ("idle", "running", "count", "fetch", ...)
    ensureLock, \* _ensure_prices_lock: the thread that holds it, or NoThread
    todayPrices, \* spot_prices holds a row with timestamp >= today_start
    debugEndpoints, \* ENABLE_DEBUG_ENDPOINTS
    tlog,      \* the job runs and ensure_today_prices calls that have returned
    tstarts,   \* job runs and calls started so far
    \* Part V: the exchange rates
    kv,        \* key_value_store: the value of the row 'exchange_rates', or NoRow
    rpc,       \* per worker: position in fetch_exchange_rates
    resp,      \* per worker: the response the fetch in progress got
    newRates,  \* per worker: new_rates of the fetch in progress
    rstatus,   \* per worker: last_exchange_rate_fetch_status
    lastFetch, \* the last fetch that succeeded: worker, response, stored set
    rread,     \* the last read since then: worker, rates returned
    rfetches,  \* fetches started so far
    \* Part VI: one call of a function of the pipeline
    fn,        \* the function called ("none" outside Part VI)
    arg,       \* its arguments
    called,    \* the call has been made
    out        \* what it returned

migVars == <<db, lock, txn, pc, cur, ver, stmt, legacy, scheduler, jobsRun,
             initState, snap, wrote, applied, durable, runs, origin>>

fetchVars == <<kind, fpc, day, attempt, upstream, payload, tries, sleeps,
               last_err, reported, all_results, status, stored, cycleRows,
               storeFailed, cycles>>

ingestVars == <<tables, nextId, view, ipc, ikind, data, ts, idx, judged,
                istatus, now, icycles, atStart>>

taskVars == <<tpc, ensureLock, todayPrices, debugEndpoints, tlog, tstarts>>

\* the variables of Parts III and later
ratesVars == <<kv, rpc, resp, newRates, rstatus, lastFetch, rread, rfetches>>

unitVars == <<fn, arg, called, out>>

laterVars == <<ingestVars, taskVars, ratesVars, unitVars>>

vars == <<migVars, fetchVars, laterVars>>

-----------------------------------------------------------------------------
(* Bounds of the model *)

\* init_db runs started in one behaviour (a worker that restarts runs it again)
MaxRuns == 2

\* fetch cycles started in one behaviour
MaxCycles == 2

\* delivery hours a day's price payload can carry
MaxHours == 1

\* grid and price store cycles started in one behaviour (Part III)
MaxIngestCycles == 2

\* price points in the all_results of one price cycle (Part III)
MaxPoints == 2

\* job runs and request-thread calls started in one behaviour (Part IV)
MaxStarts == 3

\* exchange-rate fetches started in one behaviour (Part V)
MaxRateFetches == 2

\* the length of the strings given to parse_value (Part VI)
MaxChars == 3

\* the entries of a day-ahead payload (Part VI)
MaxEntries == 2

\* the length of the histories given to is_spike_value (Part VI)
MaxHistory == 7

\* the days, from the day before the cutoff on, that rows given to the
\* retention sweep are stamped with (Part VI)
MaxStamps == 3

\* The worker processes that import the module against one store.
Workers == {"w1", "w2"}
NoWorker == "none"

-----------------------------------------------------------------------------
(* Schema, migrations *)

SCHEMA_TARGET_VERSION == 3

LedgerTable == "schema_version"

\* The objects each migration function creates, one per CREATE ... IF NOT
\* EXISTS statement, in the order of execution.
MigrateV1 ==
    <<"energy_status", "energy_types", "idx_status_ts", "idx_status_country",
      "idx_types_ts", "idx_types_country">>

MigrateV2 ==
    <<"spot_prices", "idx_prices_ts", "idx_prices_zone", "idx_prices_country">>

MigrateV3 == <<"key_value_store">>

MIGRATIONS == [v \in 1..3 |-> CASE v = 1 -> MigrateV1
                                [] v = 2 -> MigrateV2
                                [] v = 3 -> MigrateV3]

RECURSIVE SeqMax(_)
SeqMax(s) ==
    IF s = <<>> THEN 0
    ELSE LET m == SeqMax(Tail(s)) IN IF Head(s) > m THEN Head(s) ELSE m

Range(s) == {s[i] : i \in 1..Len(s)}

UpTo(n) == [i \in 1..n |-> i]

\* _get_schema_version with no schema_version table: never infers.
GetSchemaVersion_NoInference(objs, ledger) ==
    IF LedgerTable \notin objs THEN 0 ELSE SeqMax(ledger)

\* _get_schema_version with the MAX(version) query dropped.
GetSchemaVersion_NoMax(objs, ledger) ==
    IF LedgerTable \notin objs
    THEN IF "energy_status" \in objs /\ "spot_prices" \in objs THEN 2
         ELSE IF "energy_status" \in objs THEN 1
         ELSE 0
    ELSE 0

\* _get_schema_version inferring from the tables also when the
\* schema_version table is there and empty.
GetSchemaVersion_InferOnEmpty(objs, ledger) ==
    IF LedgerTable \notin objs \/ ledger = <<>>
    THEN IF "energy_status" \in objs /\ "spot_prices" \in objs THEN 2
         ELSE IF "energy_status" \in objs THEN 1
         ELSE 0
    ELSE SeqMax(ledger)

GetSchemaVersion(objs, ledger) ==
    IF LedgerTable \notin objs
    THEN IF "energy_status" \in objs /\ "spot_prices" \in objs THEN 2
         ELSE IF "energy_status" \in objs THEN 1
         ELSE 0
    ELSE SeqMax(ledger)

UpToDate(current_version) == current_version = SCHEMA_TARGET_VERSION

NewerThanTarget_Unchecked(current_version) == FALSE

NewerThanTarget(current_version) == current_version > SCHEMA_TARGET_VERSION

FirstPending(current_version) == current_version + 1

BaselineLast(current_version) == current_version

-----------------------------------------------------------------------------
(* The store as one connection sees and changes it *)

EmptyTxn == [objs |-> {}, rows |-> <<>>]

Store == [db |-> db, lock |-> lock, txn |-> txn, durable |-> durable]

SetStore(s) ==
    /\ db' = s.db
    /\ lock' = s.lock
    /\ txn' = s.txn
    /\ durable' = s.durable

VisibleObjs(s, p) ==
    s.db.objs \cup (IF s.lock = p THEN s.txn[p].objs ELSE {})

\* Another connection holds the write lock: a statement that has to write waits.
Blocked(s, p) == s.lock \notin {p, NoWorker}

CreateWrites(s, p, o) == o \notin VisibleObjs(s, p)

\* CREATE TABLE / INDEX IF NOT EXISTS o
CreateIfNotExists(s, p, o) ==
    IF o \in VisibleObjs(s, p) THEN s
    ELSE IF s.lock = p
         THEN [s EXCEPT !.txn[p].objs = @ \cup {o}]
         ELSE [s EXCEPT !.db.objs = @ \cup {o},
                        !.durable[p].objs = @ \cup {o}]

\* INSERT INTO schema_version: opens the transaction when none is open.
InsertVersion(s, p, v) ==
    [s EXCEPT !.lock = p, !.txn[p].rows = Append(@, v)]

SetSchemaVersion(s, p, v) ==
    InsertVersion(CreateIfNotExists(s, p, LedgerTable), p, v)

ConnCommit(s, p) ==
    IF s.lock = p
    THEN [s EXCEPT !.db.objs = @ \cup s.txn[p].objs,
                   !.db.ledger = @ \o s.txn[p].rows,
                   !.durable[p] = [objs |-> @.objs \cup s.txn[p].objs,
                                   rows |-> @.rows \o s.txn[p].rows],
                   !.lock = NoWorker,
                   !.txn[p] = EmptyTxn]
    ELSE s

\* get_db's finally: conn.close() discards an open transaction.
ConnClose(s, p) ==
    IF s.lock = p
    THEN [s EXCEPT !.lock = NoWorker, !.txn[p] = EmptyTxn]
    ELSE s

-----------------------------------------------------------------------------
(* Upstream fetches: constants and the retry loops' decisions *)

STATNETT_API_RETRIES == 3

NORDPOOL_API_RETRIES == 3

Kinds == {"grid", "price", "rates"}

\* What the upstream answers to one HTTP attempt: a 2xx status with a body
\* response.json() decodes; a non-2xx status, connection error or timeout
\* (requests.get or raise_for_status raises); a 2xx status with a body that
\* response.json() cannot decode.
Answers == {"ok", "http_error", "bad_body"}

NoError == [attempt |-> -1, what |-> "none"]

COUNTRIES == {"SE", "NO", "FI", "DK"}

\* fetch_and_store_prices asks for today and tomorrow, the others once.
Requests(k) == IF k = "price" THEN 2 ELSE 1

\* Attempts of one request: the two retry loops; fetch_exchange_rates has none.
Retries(k) ==
    CASE k = "grid" -> STATNETT_API_RETRIES
      [] k = "price" -> NORDPOOL_API_RETRIES
      [] k = "rates" -> 1

\* The try block of an attempt completes: the grid loop holds requests.get and
\* raise_for_status; the price loop and fetch_exchange_rates hold resp.json() too.
AttemptSucceeds(k, answer) ==
    CASE k = "grid" -> answer \in {"ok", "bad_body"}
      [] k = "price" -> answer = "ok"
      [] k = "rates" -> answer = "ok"

\* the guard "attempt < RETRIES - 1" dropped: sleeps after every failure
SleepsAfter_Always(k, a) == TRUE

\* if attempt < RETRIES - 1: time.sleep(...)
SleepsAfter(k, a) == a < Retries(k) - 1

\* time.sleep(2 ** attempt)
BackoffDelay(a) == 2 ^ a

Row(table, entity, d, h) == [table |-> table, entity |-> entity, day |-> d, hour |-> h]

GridRows == {Row(t, c, 0, 0) : t \in {"energy_status", "energy_types"}, c \in COUNTRIES}

PricePoints(d) == {Row("spot_prices", "SE3", d, h) : h \in 1..MaxHours}

RatesRow == Row("key_value_store", "exchange_rates", 0, 0)

FetchIdle ==
    /\ kind = "none"
    /\ fpc = "idle"
    /\ day = 1
    /\ attempt = 0
    /\ upstream = <<>>
    /\ payload = <<>>
    /\ tries = <<>>
    /\ sleeps = <<>>
    /\ last_err = NoError
    /\ reported = <<>>
    /\ all_results = {}
    /\ status = [k \in Kinds |-> "none"]
    /\ stored = {}
    /\ cycleRows = {}
    /\ storeFailed = FALSE
    /\ cycles = 0

-----------------------------------------------------------------------------
(* Part III: what a grid or price cycle does with its decoded payload.     *)
(*                                                                         *)
(* Numbers.  A REAL is modelled exactly, as a whole number of units; one   *)
(* thousandth is UnitsPerMilli units.  Every cycle can halve once more (a  *)
(* median of an even window, written back and read by the next cycle), and *)
(* the MAD halves once on top, so the unit is small enough for no division *)
(* of the model to round.                                                  *)

UnitsPerMilli == 2 ^ (MaxIngestCycles + 1)

\* x / 1000 for a parsed payload value x
Div1000(x) == x * UnitsPerMilli

Abs(x) == IF x < 0 THEN 0 - x ELSE x

Min(a, b) == IF a < b THEN a ELSE b

SPIKE_WINDOW_SIZE == 24

\* SPIKE_THRESHOLD_K = 5.0
SPIKE_THRESHOLD_K == 5

SPIKE_FALLBACK_PCT_Double == [num |-> 2, den |-> 1]

\* SPIKE_FALLBACK_PCT = 0.50, as the fraction 1/2
SPIKE_FALLBACK_PCT == [num |-> 1, den |-> 2]

SPIKE_MIN_HISTORY == 6

\* the upper of the two middle values of an even-length list
ComputeMedian_UpperMiddle(values) ==
    LET s == SortSeq(values, LAMBDA a, b : a < b)
        n == Len(s)
        mid == n \div 2
    IN  IF n = 0 THEN 0 ELSE s[mid + 1]

\* _compute_median: s[mid - 1], s[mid] of the 0-indexed sorted list
ComputeMedian(values) ==
    LET s == SortSeq(values, LAMBDA a, b : a < b)
        n == Len(s)
        mid == n \div 2
    IN  IF n = 0 THEN 0
        ELSE IF n % 2 = 0 THEN (s[mid] + s[mid + 1]) \div 2
        ELSE s[mid + 1]

\* _compute_mad
ComputeMad(values, median) ==
    ComputeMedian([i \in 1..Len(values) |-> Abs(values[i] - median)])

InsufficientHistory_Empty(recent_values) == recent_values = <<>>

\* len(recent_values) < min_history, line 583
InsufficientHistory(recent_values) == Len(recent_values) < SPIKE_MIN_HISTORY

\* the percentage fallback applied also when the median is zero
IsSpike_NoZeroMedian(new_value, recent_values, near_zero, tolerance) ==
    IF InsufficientHistory(recent_values)
    THEN FALSE
    ELSE LET median == ComputeMedian(recent_values)
             mad == ComputeMad(recent_values, median)
             deviation == Abs(new_value - median)
         IN  IF mad > 0
             THEN deviation > SPIKE_THRESHOLD_K * mad
             ELSE deviation * SPIKE_FALLBACK_PCT.den > SPIKE_FALLBACK_PCT.num * Abs(median)

\* is_spike_value, the boolean of its result, on values that are whole
\* numbers of some unit: near_zero is the 1e-9 of line 596 and tolerance the
\* 0.01 of line 597 in that unit (near_zero rounded up to a whole number).
IsSpike(new_value, recent_values, near_zero, tolerance) ==
    IF InsufficientHistory(recent_values)
    THEN FALSE
    ELSE LET median == ComputeMedian(recent_values)
             mad == ComputeMad(recent_values, median)
             deviation == Abs(new_value - median)
         IN  IF mad > 0
             THEN deviation > SPIKE_THRESHOLD_K * mad
             ELSE IF Abs(median) < near_zero
             THEN Abs(new_value) > tolerance
             ELSE deviation * SPIKE_FALLBACK_PCT.den > SPIKE_FALLBACK_PCT.num * Abs(median)

\* is_spike_value on the values of the store.  abs(median) < 1e-9 is
\* median = 0 at their resolution; 0.01 is ten thousandths.
IsSpikeValue(new_value, recent_values) ==
    IsSpike(new_value, recent_values, 1, 10 * UnitsPerMilli)

\* A table is a set of rows [id, timestamp, entity, vals]; entity is the
\* country of an energy_status / energy_types row and the zone of a
\* spot_prices row, vals the REAL columns.  No column the cycles write is NULL.
TableRow(id, timestamp, entity, vals) ==
    [id |-> id, timestamp |-> timestamp, entity |-> entity, vals |-> vals]

\* the rows of a result set, in some order
RECURSIVE SetToSeq(_)
SetToSeq(rows) ==
    IF rows = {} THEN <<>>
    ELSE LET r == CHOOSE r \in rows : TRUE
         IN  <<r>> \o SetToSeq(rows \ {r})

\* ORDER BY timestamp DESC (rows of one timestamp: the later insert first)
RankDesc(a, b) ==
    \/ a.timestamp > b.timestamp
    \/ a.timestamp = b.timestamp /\ a.id > b.id

\* ORDER BY timestamp DESC LIMIT ?: the most recent rows of one country /
\* zone, newest first.
RecentRows(tbl, entity, limit) ==
    LET sorted == SortSeq(SetToSeq({r \in tbl : r.entity = entity}), RankDesc)
    IN  SubSeq(sorted, 1, Min(limit, Len(sorted)))

\* [row[0] for row in rows]
ColumnOf(rows, column) == [i \in 1..Len(rows) |-> rows[i].vals[column]]

\* get_recent_values, and the SELECT of fetch_and_store_prices (lines 842-846)
GetRecentValues(tbl, column, entity, limit) ==
    ColumnOf(RecentRows(tbl, entity, limit), column)

\* plain INSERT: the row is added whatever the table holds
InsertOrReplace_Insert(tbl, id, timestamp, entity, vals) ==
    tbl \cup {TableRow(id, timestamp, entity, vals)}

\* INSERT OR REPLACE under UNIQUE(timestamp, country) / UNIQUE(timestamp, zone):
\* the rows in conflict are deleted, the new row gets the next id.
InsertOrReplace(tbl, id, timestamp, entity, vals) ==
    {r \in tbl : ~(r.timestamp = timestamp /\ r.entity = entity)}
        \cup {TableRow(id, timestamp, entity, vals)}

-----------------------------------------------------------------------------
(* The grid payload: JSON values, parse_value, get_item.                   *)

\* A JSON value [t, n, s]: null; a number n; a number too large for a float
\* ("huge", an integer literal of some hundred digits); true / false (n = 1 / 0);
\* a string s (a sequence of characters); an array or object ("other").
JNull == [t |-> "null", n |-> 0, s |-> <<>>]

JNum(n) == [t |-> "num", n |-> n, s |-> <<>>]

JHuge == [t |-> "huge", n |-> 0, s |-> <<>>]

JBool(b) == [t |-> "bool", n |-> IF b THEN 1 ELSE 0, s |-> <<>>]

JStr(s) == [t |-> "str", n |-> 0, s |-> s]

JOther == [t |-> "other", n |-> 0, s |-> <<>>]

\* The characters of the strings considered: digits, sign, blank, a letter,
\* and a character outside ASCII (a no-break space, say).
Digits == <<"0", "1", "2", "3", "4", "5", "6", "7", "8", "9">>

NonAscii == "nbsp"

IsDigit(c) == \E i \in 1..Len(Digits) : Digits[i] = c

DigitValue(c) == (CHOOSE i \in 1..Len(Digits) : Digits[i] = c) - 1

\* str(value).encode('ascii', 'ignore').decode('ascii')
AsciiOnly(s) == SelectSeq(s, LAMBDA c : c # NonAscii)

\* str.strip()
Strip(s) ==
    LET inked == {i \in 1..Len(s) : s[i] # " "}
    IN  IF inked = {} THEN <<>>
        ELSE SubSeq(s, CHOOSE i \in inked : \A j \in inked : i <= j,
                       CHOOSE i \in inked : \A j \in inked : i >= j)

RECURSIVE DigitsValue(_)
DigitsValue(s) ==
    IF s = <<>> THEN 0
    ELSE 10 * DigitsValue(SubSeq(s, 1, Len(s) - 1)) + DigitValue(s[Len(s)])

\* float(cleaned) accepts, of these characters, an optional sign and digits
IsNumeral(s) ==
    LET body == IF s # <<>> /\ s[1] = "-" THEN Tail(s) ELSE s
    IN  body # <<>> /\ \A i \in 1..Len(body) : IsDigit(body[i])

NumeralValue(s) ==
    IF s[1] = "-" THEN 0 - DigitsValue(Tail(s)) ELSE DigitsValue(s)

\* The outcome of an expression: a value, or an exception raised.
Returned(v) == [raised |-> FALSE, v |-> v]

Raised == [raised |-> TRUE, v |-> 0]

\* parse_value without the isinstance branch: every non-null value goes
\* through str() and float()
ParseValue_StrOnly(value) ==
    CASE value.t = "null" -> Returned(0)
      [] value.t = "num" -> Returned(value.n)
      [] value.t = "huge" -> Returned(0)
      [] value.t = "bool" -> Returned(0)
      [] value.t = "str" ->
            LET cleaned == Strip(AsciiOnly(value.s))
            IN  IF cleaned # <<>> /\ IsNumeral(cleaned)
                THEN Returned(NumeralValue(cleaned))
                ELSE Returned(0)
      [] value.t = "other" -> Returned(0)

\* parse_value.  bool is a subclass of int, so true is 1.0; float() of an
\* integer beyond the float range raises OverflowError, outside the try;
\* str() of an array or object never reads as a float (ValueError).
ParseValue(value) ==
    CASE value.t = "null" -> Returned(0)
      [] value.t = "num" -> Returned(value.n)
      [] value.t = "bool" -> Returned(value.n)
      [] value.t = "huge" -> Raised
      [] value.t = "str" ->
            LET cleaned == Strip(AsciiOnly(value.s))
            IN  IF cleaned # <<>> /\ IsNumeral(cleaned)
                THEN Returned(NumeralValue(cleaned))
                ELSE Returned(0)
      [] value.t = "other" -> Returned(0)

\* An element of a payload array: a JSON object with its titleTranslationId
\* (id) and, when has, its "value"; or something that is not an object.
Item(id, value) == [obj |-> TRUE, id |-> id, has |-> TRUE, value |-> value]

ItemNoValue(id) == [obj |-> TRUE, id |-> id, has |-> FALSE, value |-> JNull]

NotAnObject == [obj |-> FALSE, id |-> <<>>, has |-> FALSE, value |-> JNull]

EmptyDict == [obj |-> TRUE, id |-> <<>>, has |-> FALSE, value |-> JNull]

\* What data.get(name, []) yields: the key absent ("missing": the default []),
\* JSON null, an array of items, or a non-empty value that is no array
\* ("object": iterating it yields its keys, strings).
Collection(shape, items) == [shape |-> shape, items |-> items]

\* get_item.  next() stops at the first match; item.get raises
\* AttributeError on an element before it that is not an object.
GetItem(collection, target) ==
    LET items == collection.items
        matches == {i \in 1..Len(items) : items[i].obj /\ items[i].id = target}
        bad == {i \in 1..Len(items) : ~items[i].obj}
        upTo == IF matches = {} THEN Len(items)
                ELSE CHOOSE i \in matches : \A j \in matches : i <= j
    IN  IF collection.shape \in {"missing", "null"} \/
           (collection.shape = "list" /\ items = <<>>)
        THEN Returned(EmptyDict)
        ELSE IF collection.shape # "list"
        THEN Raised
        ELSE IF \E i \in bad : i <= upTo
        THEN Raised
        ELSE IF matches = {} THEN Returned(EmptyDict)
        ELSE Returned(items[upTo])

\* dict.get("value")
ItemValue(item) == IF item.has THEN item.value ELSE JNull

-----------------------------------------------------------------------------
(* The payloads and stores the cycles of Part III are run on.              *)

\* for country_code in COUNTRIES.keys(): the dict's insertion order
CountryOrder == <<"SE", "NO", "FI", "DK">>

\* The payload arrays and the stem of the titleTranslationId looked up in
\* each ("ProductionConsumption.<stem><country>Desc").
StatusArrays == <<"ConsumptionData", "ProductionData", "NetExchangeData">>

TypesArrays == <<"NuclearData", "HydroData", "WindData", "ThermalData",
                 "NotSpecifiedData">>

ArrayNames == Range(StatusArrays) \cup Range(TypesArrays)

TitleId(array, country_code) == <<array, country_code>>

\* the columns of the two grid tables, in the order of the dict literals
StatusFields == <<"production", "consumption", "import_value", "export_value">>

TypesFields == <<"nuclear", "hydro", "wind", "thermal", "not_specified">>

\* the payload array a types column is parsed from
TypesArrayOf(field_name) ==
    CASE field_name = "nuclear" -> "NuclearData"
      [] field_name = "hydro" -> "HydroData"
      [] field_name = "wind" -> "WindData"
      [] field_name = "thermal" -> "ThermalData"
      [] field_name = "not_specified" -> "NotSpecifiedData"

\* A well-formed payload: every array holds one object per country, in MW.
BaseValue(array) ==
    CASE array = "ConsumptionData" -> 15000
      [] array = "ProductionData" -> 16000
      [] array = "NetExchangeData" -> 0 - 1000
      [] array = "NuclearData" -> 6000
      [] array = "HydroData" -> 7000
      [] array = "WindData" -> 2000
      [] array = "ThermalData" -> 500
      [] array = "NotSpecifiedData" -> 500

BaseArray(array) ==
    Collection("list", [i \in 1..Len(CountryOrder) |->
                            Item(TitleId(array, CountryOrder[i]), JNum(BaseValue(array)))])

BasePayload == [array \in ArrayNames |-> BaseArray(array)]

\* The values a field of the payload is given.
TestValues ==
    {JNum(0), JNum(3000), JNum(900000), JNull, JBool(TRUE), JHuge, JOther,
     JStr(<<>>), JStr(<<"x">>), JStr(<<" ", "-", "7", NonAscii, "0", "0", "0", " ">>)}

\* The shapes the array of a field, or the element of a country in it, is given.
ReplaceAt(seq, i, e) == [seq EXCEPT ![i] = e]

RemoveAt(seq, i) == SubSeq(seq, 1, i - 1) \o SubSeq(seq, i + 1, Len(seq))

ArrayVariants(array, i) ==
    LET base == BaseArray(array).items
        id == TitleId(array, CountryOrder[i])
    IN  {Collection("list", ReplaceAt(base, i, Item(id, v))) : v \in TestValues}
        \cup {Collection("list", ReplaceAt(base, i, ItemNoValue(id))),
              Collection("list", RemoveAt(base, i)),
              Collection("list", ReplaceAt(base, i, NotAnObject)),
              Collection("list", Append(base, NotAnObject)),
              Collection("list", <<>>),
              Collection("missing", <<>>),
              Collection("null", <<>>),
              Collection("object", <<>>)}

\* The shapes the wind entry is given (the types row of a country).
WindVariants(i) ==
    LET base == BaseArray("WindData").items
        id == TitleId("WindData", CountryOrder[i])
    IN  {Collection("list", ReplaceAt(base, i, Item(id, JNum(900000)))),
         Collection("list", ReplaceAt(base, i, Item(id, JHuge))),
         Collection("list", ReplaceAt(base, i, NotAnObject))}

\* The payloads of the model: the well-formed one, and the entry of the
\* second country changed in NetExchangeData or in WindData.
VariedCountry == CHOOSE i \in 1..Len(CountryOrder) : CountryOrder[i] = "NO"

GridPayloads ==
    {BasePayload}
    \cup {[BasePayload EXCEPT !["NetExchangeData"] = variant] :
             variant \in ArrayVariants("NetExchangeData", VariedCountry)}
    \cup {[BasePayload EXCEPT !["WindData"] = variant] :
             variant \in WindVariants(VariedCountry)}

\* the sign test dropped: the net exchange itself is the import
ImportVal_NoSign(exchange) == Div1000(exchange)

\* import_val = exchange / 1000 if exchange >= 0 else 0
ImportVal(exchange) == IF exchange >= 0 THEN Div1000(exchange) ELSE 0

\* export_val = abs(exchange) / 1000 if exchange < 0 else 0
ExportVal(exchange) == IF exchange < 0 THEN Div1000(Abs(exchange)) ELSE 0

\* status_fields of lines 664-669
StatusVals(production, consumption, exchange) ==
    [field_name \in Range(StatusFields) |->
        CASE field_name = "production" -> Div1000(production)
          [] field_name = "consumption" -> Div1000(consumption)
          [] field_name = "import_value" -> ImportVal(exchange)
          [] field_name = "export_value" -> ExportVal(exchange)]

\* The stores a behaviour of Part III starts from: no rows, or the rows of
\* SPIKE_MIN_HISTORY earlier cycles (minutes / delivery hours 1..6), with the
\* same values every cycle ("flat") or values that move ("varied").
HistoryKinds == {"none", "flat", "varied"}

HistoryLen(h) == IF h = "none" THEN 0 ELSE SPIKE_MIN_HISTORY

HistoryExchange(h, i) ==
    IF h = "flat" THEN BaseValue("NetExchangeData")
    ELSE IF i % 2 = 0 THEN 3000
    ELSE IF i % 4 = 1 THEN 0 - 1000 ELSE 0 - 5000

HistoryWind(h, i) ==
    IF h = "flat" THEN BaseValue("WindData") ELSE BaseValue("WindData") + 100 * (i % 3)

HistoryPrice(h, i) ==
    IF h = "flat" THEN 50000 ELSE 50000 + 1000 * (i % 3)

PriceZones == {"SE3"}

\* ZONE_TO_COUNTRY
ZoneToCountry(zone_code) == IF zone_code = "SE3" THEN "SE" ELSE "DK"

IngestStore(h) ==
    [energy_status |->
        {TableRow((i - 1) * Len(CountryOrder) + c, i, CountryOrder[c],
                  StatusVals(BaseValue("ProductionData"), BaseValue("ConsumptionData"),
                             HistoryExchange(h, i))) :
            i \in 1..HistoryLen(h), c \in 1..Len(CountryOrder)},
     energy_types |->
        {TableRow((i - 1) * Len(CountryOrder) + c, i, CountryOrder[c],
                  [field_name \in Range(TypesFields) |->
                      Div1000(IF field_name = "wind" THEN HistoryWind(h, i)
                              ELSE BaseValue(TypesArrayOf(field_name)))]) :
            i \in 1..HistoryLen(h), c \in 1..Len(CountryOrder)},
     spot_prices |->
        {TableRow(i, i, z, [price |-> HistoryPrice(h, i) * UnitsPerMilli]) :
            i \in 1..HistoryLen(h), z \in PriceZones}]

IngestNextId(h) ==
    [energy_status |-> HistoryLen(h) * Len(CountryOrder) + 1,
     energy_types |-> HistoryLen(h) * Len(CountryOrder) + 1,
     spot_prices |-> HistoryLen(h) + 1]

\* the connection of a cycle before its first INSERT, and after close
ClosedView == [open |-> FALSE, tables |-> IngestStore("none"), nextId |-> IngestNextId("none")]

\* the first minute after the history
FirstMinute == SPIKE_MIN_HISTORY + 1

IngestInit(h) ==
    /\ tables = IngestStore(h)
    /\ nextId = IngestNextId(h)
    /\ view = ClosedView
    /\ ipc = "idle"
    /\ ikind = "none"
    /\ data = <<>>
    /\ ts = 0
    /\ idx = 0
    /\ judged = <<>>
    /\ istatus = [k \in {"grid", "price"} |-> "none"]
    /\ now = FirstMinute
    /\ icycles = 0
    /\ atStart = tables

IngestIdle == IngestInit("none")

-----------------------------------------------------------------------------
(* Part IV, statics: the threads of a worker process that run the tasks.   *)
(* The scheduler (APScheduler's BackgroundScheduler, jobs added with the   *)
(* default max_instances = 1) runs each job in a pool thread and skips a   *)
(* run of a job whose previous run has not returned; one pool thread per   *)
(* job models that.  Request threads serve the routes that call            *)
(* ensure_today_prices (line 1125) and trigger_fetch.                      *)

\* the ids of the jobs start_scheduler adds (lines 1561-1574)
Jobs == {"fetch_data", "fetch_prices", "fetch_exchange_rates", "cleanup"}

RequestThreads == {"r1", "r2"}

Threads == Jobs \cup RequestThreads

NoThread == "none"

\* the function a job runs, by the task type of the claims
TaskType(j) ==
    CASE j = "fetch_data" -> "grid"
      [] j = "fetch_prices" -> "price"
      [] j = "fetch_exchange_rates" -> "rates"
      [] j = "cleanup" -> "cleanup"

TaskTypes == {TaskType(j) : j \in Jobs}

TasksInit(endpoints) ==
    /\ tpc = [t \in Threads |-> "idle"]
    /\ ensureLock = NoThread
    /\ todayPrices = FALSE
    /\ debugEndpoints = endpoints
    /\ tlog = <<>>
    /\ tstarts = 0

TasksIdle == TasksInit(FALSE)

-----------------------------------------------------------------------------
(* Part V, statics: the exchange rates.  A rate is an integer number of    *)
(* ten-thousandths (EUR = 1.0 is 10000).                                   *)

Currencies == <<"EUR", "SEK", "DKK", "NOK">>

\* the currencies the request asks for: ...latest?from=EUR&to=SEK,DKK,NOK
Requested == <<"SEK", "DKK", "NOK">>

FALLBACK_EXCHANGE_RATES ==
    [c \in {"EUR", "SEK", "DKK", "NOK"} |->
        CASE c = "EUR" -> 10000
          [] c = "SEK" -> 110000
          [] c = "DKK" -> 74500
          [] c = "NOK" -> 115000]

RangeOf(seq) == {seq[i] : i \in 1..Len(seq)}

\* the rate the API quotes for a currency in response k
Quote(c, k) == FALLBACK_EXCHANGE_RATES[c] + 1000 * k

\* a JSON null in the place of a rate
NullRate == 0 - 1

\* the responses: the request or its decoding fails, or a JSON object whose
\* "rates" (absent: no currency) holds quotes for some of the currencies;
\* SEK may also come as null
NoResponse == [ok |-> FALSE, rates |-> [c \in {} |-> 0]]

Responses ==
    {NoResponse}
        \cup {[ok |-> TRUE, rates |-> [c \in present |-> Quote(c, k)]] :
                present \in SUBSET RangeOf(Requested), k \in {1, 2}}
        \cup {[ok |-> TRUE,
               rates |-> [c \in RangeOf(Requested) |->
                            IF c = "SEK" THEN NullRate ELSE Quote(c, 1)]]}

\* float(rates[c]) raises for a null
FloatRaises(response) ==
    \E c \in RangeOf(Requested) :
        c \in DOMAIN response.rates /\ response.rates[c] = NullRate

\* fetch_exchange_rates, lines 907-915: a copy of the fallback set, the
\* currencies the response holds overwritten, EUR set to 1.0
NewRates(response) ==
    [c \in DOMAIN FALLBACK_EXCHANGE_RATES |->
        IF c = "EUR" THEN 10000
        ELSE IF c \in RangeOf(Requested) /\ c \in DOMAIN response.rates
             THEN response.rates[c]
             ELSE FALLBACK_EXCHANGE_RATES[c]]

\* json.dumps of a rate set: the members in the order of the dict
Dumps(rates) ==
    LET keys == SelectSeq(Currencies, LAMBDA c : c \in DOMAIN rates)
    IN  [i \in 1..Len(keys) |-> <<keys[i], rates[keys[i]]>>]

\* json.loads: the object of the members (of a repeated name the last)
Loads(text) ==
    [c \in {text[i][1] : i \in 1..Len(text)} |->
        LET last == CHOOSE i \in 1..Len(text) :
                        /\ text[i][1] = c
                        /\ \A k \in 1..Len(text) : text[k][1] = c => k <= i
        IN  text[last][2]]

NoRow == [present |-> FALSE, value |-> <<>>]

\* _get_exchange_rates_from_db: the stored value decoded; the fallback set
\* when there is no row or when anything in the read raised
GetExchangeRatesFromDb(row, raised) ==
    IF ~raised /\ row.present THEN Loads(row.value) ELSE FALLBACK_EXCHANGE_RATES

NoFetch == [worker |-> "none"]

NoRead == [worker |-> "none"]

RatesInit ==
    /\ kv = NoRow
    /\ rpc = [w \in Workers |-> "idle"]
    /\ resp = [w \in Workers |-> NoResponse]
    /\ newRates = [w \in Workers |-> FALLBACK_EXCHANGE_RATES]
    /\ rstatus = [w \in Workers |-> "none"]
    /\ lastFetch = NoFetch
    /\ rread = NoRead
    /\ rfetches = 0

RatesIdle == RatesInit

-----------------------------------------------------------------------------
(* Part VI, statics: a function of the pipeline called once on arguments   *)
(* drawn from a bounded set.                                               *)

NoCall == <<>>

\* the call of function f on argument a, not made yet
CallOf(f, a) ==
    /\ fn = f
    /\ arg = a
    /\ called = FALSE
    /\ out = NoCall

UnitIdle == CallOf("none", NoCall)

LaterIdle == IngestIdle /\ TasksIdle /\ RatesIdle /\ UnitIdle

-----------------------------------------------------------------------------
(* Initial stores: fresh, pre-versioning (no ledger), versioned 1..3, and   *)
(* one written by a newer release of the application (version 4).          *)

ObjsUpTo(k) ==
    UNION {Range(MIGRATIONS[v]) : v \in 1..(IF k > 3 THEN 3 ELSE k)}

FreshStore == [objs |-> {}, ledger |-> <<>>]

LegacyStore(k) == [objs |-> ObjsUpTo(k), ledger |-> <<>>]

VersionedStore(k) ==
    [objs |-> ObjsUpTo(k) \cup {LedgerTable}
              \cup (IF k > 3 THEN {"newer_release_table"} ELSE {}),
     ledger |-> UpTo(k)]

InitialStores ==
    {FreshStore} \cup {LegacyStore(k) : k \in 1..2}
                 \cup {VersionedStore(k) : k \in 1..(SCHEMA_TARGET_VERSION + 1)}

RunPcs == {"mkledger", "count", "baseline", "migrate", "record", "commit"}

MigInit(store) ==
    /\ db = store
    /\ origin = db
    /\ lock = NoWorker
    /\ txn = [p \in Workers |-> EmptyTxn]
    /\ pc = [p \in Workers |-> "boot"]
    /\ cur = [p \in Workers |-> 0]
    /\ ver = [p \in Workers |-> 0]
    /\ stmt = [p \in Workers |-> 0]
    /\ legacy = [p \in Workers |-> FALSE]
    /\ scheduler = [p \in Workers |-> "none"]
    /\ jobsRun = [p \in Workers |-> {}]
    /\ initState = [p \in Workers |-> "none"]
    /\ snap = [p \in Workers |-> db]
    /\ wrote = [p \in Workers |-> <<>>]
    /\ applied = [p \in Workers |-> <<>>]
    /\ durable = [p \in Workers |-> EmptyTxn]
    /\ runs = 0

Init == (\E store \in InitialStores : MigInit(store)) /\ FetchIdle /\ LaterIdle

-----------------------------------------------------------------------------
(* initialize_app: init_db, then start_scheduler; an exception of either   *)
(* is logged and raised again, which ends the import of the module.        *)

AfterInitFailure_Swallowed == "start_scheduler"

AfterInitFailure == "crashed"

\* init_db, lines 459-483: connect, read the version, return / refuse / go on.
InitDbRead(p) ==
    /\ pc[p] = "boot"
    /\ runs < MaxRuns
    /\ runs' = runs + 1
    /\ LET v == GetSchemaVersion(db.objs, db.ledger) IN
        /\ cur' = [cur EXCEPT ![p] = v]
        /\ legacy' = [legacy EXCEPT ![p] = LedgerTable \notin db.objs]
        /\ snap' = [snap EXCEPT ![p] = db]
        /\ IF UpToDate(v)
           THEN /\ pc' = [pc EXCEPT ![p] = "start_scheduler"]
                /\ initState' = [initState EXCEPT ![p] = "ok"]
           ELSE IF NewerThanTarget(v)
           THEN /\ pc' = [pc EXCEPT ![p] = AfterInitFailure]
                /\ initState' = [initState EXCEPT ![p] = "failed"]
           ELSE /\ pc' = [pc EXCEPT ![p] = "mkledger"]
                /\ UNCHANGED initState
    /\ UNCHANGED <<db, lock, txn, ver, stmt, scheduler, jobsRun, wrote, applied,
                   durable, origin>>
    /\ UNCHANGED <<fetchVars, laterVars>>

\* init_db, lines 485-490: CREATE TABLE IF NOT EXISTS schema_version.
CreateLedger(p) ==
    /\ pc[p] = "mkledger"
    /\ ~(CreateWrites(Store, p, LedgerTable) /\ Blocked(Store, p))
    /\ SetStore(CreateIfNotExists(Store, p, LedgerTable))
    /\ pc' = [pc EXCEPT ![p] = IF cur[p] > 0 THEN "count" ELSE "migrate"]
    /\ ver' = [ver EXCEPT ![p] = FirstPending(cur[p])]
    /\ stmt' = [stmt EXCEPT ![p] = 1]
    /\ UNCHANGED <<cur, legacy, scheduler, jobsRun, initState, snap, wrote,
                   applied, runs, origin>>
    /\ UNCHANGED <<fetchVars, laterVars>>

\* init_db, lines 492-494: SELECT COUNT(*) FROM schema_version.
CountLedger(p) ==
    /\ pc[p] = "count"
    /\ IF Len(db.ledger) = 0 /\ BaselineLast(cur[p]) >= 1
       THEN /\ pc' = [pc EXCEPT ![p] = "baseline"]
            /\ ver' = [ver EXCEPT ![p] = 1]
       ELSE /\ pc' = [pc EXCEPT ![p] = "migrate"]
            /\ UNCHANGED ver
    /\ UNCHANGED <<db, lock, txn, cur, stmt, legacy, scheduler, jobsRun,
                   initState, snap, wrote, applied, durable, runs, origin>>
    /\ UNCHANGED <<fetchVars, laterVars>>

\* init_db, lines 499-500: one _set_schema_version(cursor, v) of the baseline.
RecordBaseline(p) ==
    /\ pc[p] = "baseline"
    /\ ~Blocked(Store, p)
    /\ SetStore(SetSchemaVersion(Store, p, ver[p]))
    /\ wrote' = [wrote EXCEPT ![p] = Append(@, ver[p])]
    /\ IF ver[p] >= BaselineLast(cur[p])
       THEN /\ pc' = [pc EXCEPT ![p] = "migrate"]
            /\ ver' = [ver EXCEPT ![p] = FirstPending(cur[p])]
       ELSE /\ ver' = [ver EXCEPT ![p] = @ + 1]
            /\ UNCHANGED pc
    /\ UNCHANGED <<cur, stmt, legacy, scheduler, jobsRun, initState, snap,
                   applied, runs, origin>>
    /\ UNCHANGED <<fetchVars, laterVars>>

\* init_db, lines 503-512: one statement of migration_fn(cursor); a version
\* without a migration function raises.
ApplyStatement(p) ==
    /\ pc[p] = "migrate"
    /\ IF ver[p] \notin DOMAIN MIGRATIONS
       THEN /\ SetStore(ConnClose(Store, p))
            /\ pc' = [pc EXCEPT ![p] = AfterInitFailure]
            /\ initState' = [initState EXCEPT ![p] = "failed"]
            /\ UNCHANGED <<stmt, applied>>
       ELSE LET o == MIGRATIONS[ver[p]][stmt[p]] IN
            /\ ~(CreateWrites(Store, p, o) /\ Blocked(Store, p))
            /\ SetStore(CreateIfNotExists(Store, p, o))
            /\ applied' = [applied EXCEPT
                             ![p] = IF stmt[p] = 1 THEN Append(@, ver[p]) ELSE @]
            /\ IF stmt[p] = Len(MIGRATIONS[ver[p]])
               THEN pc' = [pc EXCEPT ![p] = "record"] /\ UNCHANGED stmt
               ELSE stmt' = [stmt EXCEPT ![p] = @ + 1] /\ UNCHANGED pc
            /\ UNCHANGED initState
    /\ UNCHANGED <<cur, ver, legacy, scheduler, jobsRun, snap, wrote, runs, origin>>
    /\ UNCHANGED <<fetchVars, laterVars>>

\* init_db, line 513: _set_schema_version(cursor, version), and the loop's step.
RecordVersion(p) ==
    /\ pc[p] = "record"
    /\ ~Blocked(Store, p)
    /\ SetStore(SetSchemaVersion(Store, p, ver[p]))
    /\ wrote' = [wrote EXCEPT ![p] = Append(@, ver[p])]
    /\ IF ver[p] >= SCHEMA_TARGET_VERSION
       THEN pc' = [pc EXCEPT ![p] = "commit"] /\ UNCHANGED <<ver, stmt>>
       ELSE /\ ver' = [ver EXCEPT ![p] = @ + 1]
            /\ stmt' = [stmt EXCEPT ![p] = 1]
            /\ pc' = [pc EXCEPT ![p] = "migrate"]
    /\ UNCHANGED <<cur, legacy, scheduler, jobsRun, initState, snap, applied,
                   runs, origin>>
    /\ UNCHANGED <<fetchVars, laterVars>>

\* init_db, line 516: conn.commit(); init_db returns.
Commit(p) ==
    /\ pc[p] = "commit"
    /\ SetStore(ConnCommit(Store, p))
    /\ pc' = [pc EXCEPT ![p] = "start_scheduler"]
    /\ initState' = [initState EXCEPT ![p] = "ok"]
    /\ UNCHANGED <<cur, ver, stmt, legacy, scheduler, jobsRun, snap, wrote,
                   applied, runs, origin>>
    /\ UNCHANGED <<fetchVars, laterVars>>

\* A statement of the run raises (disk full, "database is locked" after the
\* busy timeout, ...) or the run stops: the connection is closed without commit.
RunFails(p) ==
    /\ pc[p] \in RunPcs
    /\ SetStore(ConnClose(Store, p))
    /\ pc' = [pc EXCEPT ![p] = AfterInitFailure]
    /\ initState' = [initState EXCEPT ![p] = "failed"]
    /\ UNCHANGED <<cur, ver, stmt, legacy, scheduler, jobsRun, snap, wrote,
                   applied, runs, origin>>
    /\ UNCHANGED <<fetchVars, laterVars>>

-----------------------------------------------------------------------------
(* start_scheduler: the three initial fetches, the four jobs, start().     *)

InitialFetches == <<"fetch_data", "fetch_prices", "fetch_exchange_rates">>

NextInitialFetch(p) ==
    CHOOSE i \in 1..(Len(InitialFetches) + 1) :
        /\ \A j \in 1..(i - 1) : InitialFetches[j] \in jobsRun[p]
        /\ i <= Len(InitialFetches) => InitialFetches[i] \notin jobsRun[p]

\* start_scheduler, lines 1540-1557: skipped when a scheduler is running.
InitialFetch(p) ==
    /\ pc[p] = "start_scheduler"
    /\ scheduler[p] # "running"
    /\ NextInitialFetch(p) <= Len(InitialFetches)
    /\ jobsRun' = [jobsRun EXCEPT ![p] = @ \cup {InitialFetches[NextInitialFetch(p)]}]
    /\ UNCHANGED <<db, lock, txn, pc, cur, ver, stmt, legacy, scheduler,
                   initState, snap, wrote, applied, durable, runs, origin>>
    /\ UNCHANGED <<fetchVars, laterVars>>

\* start_scheduler, lines 1561-1576: add_job x 4, scheduler.start().
SchedulerStart(p) ==
    /\ pc[p] = "start_scheduler"
    /\ scheduler[p] # "running"
    /\ NextInitialFetch(p) > Len(InitialFetches)
    /\ scheduler' = [scheduler EXCEPT ![p] = "running"]
    /\ pc' = [pc EXCEPT ![p] = "serving"]
    /\ UNCHANGED <<db, lock, txn, cur, ver, stmt, legacy, jobsRun, initState,
                   snap, wrote, applied, durable, runs, origin>>
    /\ UNCHANGED <<fetchVars, laterVars>>

\* A job the running scheduler triggers.
RunJob(p, j) ==
    /\ scheduler[p] = "running"
    /\ j \notin jobsRun[p]
    /\ jobsRun' = [jobsRun EXCEPT ![p] = @ \cup {j}]
    /\ UNCHANGED <<db, lock, txn, pc, cur, ver, stmt, legacy, scheduler,
                   initState, snap, wrote, applied, durable, runs, origin>>
    /\ UNCHANGED <<fetchVars, laterVars>>

\* The worker process ends and a new one imports the module (line 1596).
Restart(p) ==
    /\ pc[p] \in {"crashed", "serving"}
    /\ runs < MaxRuns
    /\ pc' = [pc EXCEPT ![p] = "boot"]
    /\ cur' = [cur EXCEPT ![p] = 0]
    /\ ver' = [ver EXCEPT ![p] = 0]
    /\ stmt' = [stmt EXCEPT ![p] = 0]
    /\ legacy' = [legacy EXCEPT ![p] = FALSE]
    /\ scheduler' = [scheduler EXCEPT ![p] = "none"]
    /\ jobsRun' = [jobsRun EXCEPT ![p] = {}]
    /\ initState' = [initState EXCEPT ![p] = "none"]
    /\ snap' = [snap EXCEPT ![p] = db]
    /\ wrote' = [wrote EXCEPT ![p] = <<>>]
    /\ applied' = [applied EXCEPT ![p] = <<>>]
    /\ durable' = [durable EXCEPT ![p] = EmptyTxn]
    /\ UNCHANGED <<db, lock, txn, runs, origin>>
    /\ UNCHANGED <<fetchVars, laterVars>>

Next ==
    \E p \in Workers :
        \/ InitDbRead(p)
        \/ CreateLedger(p)
        \/ CountLedger(p)
        \/ RecordBaseline(p)
        \/ ApplyStatement(p)
        \/ RecordVersion(p)
        \/ Commit(p)
        \/ RunFails(p)
        \/ InitialFetch(p)
        \/ SchedulerStart(p)
        \/ \E j \in Jobs : RunJob(p, j)
        \/ Restart(p)

Spec == Init /\ [][Next]_vars

-----------------------------------------------------------------------------
(* Part II: the fetch cycles fetch_and_store_data ("grid"),                *)
(* fetch_and_store_prices ("price") and fetch_exchange_rates ("rates").    *)

\* The answers to attempts 1..3 of a request.  No loop reads an answer after
\* the first "ok", so the answers after it are fixed to "ok".
AnswerSchedules ==
    {u \in [1..3 -> Answers] :
        \A i \in 1..2 : u[i] = "ok" => u[i + 1] = "ok"}

\* A cycle starts; the upstream's answers and payloads are fixed here.
StartCycle(k) ==
    /\ fpc = "idle"
    /\ cycles < MaxCycles
    /\ cycles' = cycles + 1
    /\ kind' = k
    /\ fpc' = "request"
    /\ day' = 1
    /\ attempt' = 0
    /\ upstream' \in [1..Requests(k) -> AnswerSchedules]
    /\ IF k = "price"
       THEN \E today \in SUBSET PricePoints(1), tomorrow \in SUBSET PricePoints(2) :
                payload' = <<today, tomorrow>>
       ELSE payload' = <<{}>>
    /\ tries' = [d \in 1..Requests(k) |-> <<>>]
    /\ sleeps' = [d \in 1..Requests(k) |-> <<>>]
    /\ reported' = [d \in 1..Requests(k) |-> NoError]
    /\ last_err' = NoError
    /\ all_results' = {}
    /\ cycleRows' = {}
    /\ storeFailed' = FALSE
    /\ UNCHANGED <<status, stored>>
    /\ UNCHANGED <<migVars, laterVars>>

Answer == upstream[day][attempt + 1]

ThisError == [attempt |-> attempt, what |-> Answer]

\* The except branch of a retry loop: last_err = e, the sleep, continue.
AttemptFailed ==
    /\ tries' = [tries EXCEPT ![day] = Append(@, Answer)]
    /\ last_err' = ThisError
    /\ sleeps' = [sleeps EXCEPT ![day] = IF SleepsAfter(kind, attempt)
                                         THEN Append(@, BackoffDelay(attempt))
                                         ELSE @]

\* fetch_and_store_data, lines 623-637: one attempt of the retry loop; the
\* loop's else branch raises last_err into the handler of lines 734-737.
GridAttempt ==
    /\ kind = "grid" /\ fpc = "request"
    /\ IF AttemptSucceeds(kind, Answer)
       THEN /\ tries' = [tries EXCEPT ![day] = Append(@, Answer)]
            /\ fpc' = "decode"
            /\ UNCHANGED <<attempt, sleeps, last_err, reported, status>>
       ELSE /\ AttemptFailed
            /\ IF attempt + 1 < Retries(kind)
               THEN /\ attempt' = attempt + 1
                    /\ UNCHANGED <<fpc, reported, status>>
               ELSE /\ reported' = [reported EXCEPT ![day] = ThisError]
                    /\ status' = [status EXCEPT !["grid"] = "error"]
                    /\ fpc' = "done"
                    /\ UNCHANGED attempt
    /\ UNCHANGED <<kind, day, upstream, payload, all_results, stored, cycleRows,
                   storeFailed, cycles>>
    /\ UNCHANGED <<migVars, laterVars>>

\* fetch_and_store_data, line 639: data = response.json(), outside the loop.
GridDecode ==
    /\ kind = "grid" /\ fpc = "decode"
    /\ IF tries[day][Len(tries[day])] = "ok"
       THEN fpc' = "store" /\ UNCHANGED status
       ELSE fpc' = "done" /\ status' = [status EXCEPT !["grid"] = "error"]
    /\ UNCHANGED <<kind, day, attempt, upstream, payload, tries, sleeps, last_err,
                   reported, all_results, stored, cycleRows, storeFailed, cycles>>
    /\ UNCHANGED <<migVars, laterVars>>

\* fetch_and_store_data, lines 643-732: the rows of the four countries, commit.
GridStore ==
    /\ kind = "grid" /\ fpc = "store"
    /\ stored' = stored \cup GridRows
    /\ cycleRows' = GridRows
    /\ status' = [status EXCEPT !["grid"] = "success"]
    /\ fpc' = "done"
    /\ UNCHANGED <<kind, day, attempt, upstream, payload, tries, sleeps, last_err,
                   reported, all_results, storeFailed, cycles>>
    /\ UNCHANGED <<migVars, laterVars>>

\* fetch_and_store_prices, lines 822-830, after a request returned day_results:
\* the next request, or the check of all_results.
AfterPriceRequest(results) ==
    /\ all_results' = results
    /\ IF day < Requests(kind)
       THEN /\ day' = day + 1
            /\ attempt' = 0
            /\ last_err' = NoError
            /\ UNCHANGED <<fpc, status>>
       ELSE /\ IF results = {}
               THEN fpc' = "done" /\ status' = [status EXCEPT !["price"] = "no_data"]
               ELSE fpc' = "store" /\ UNCHANGED status
            /\ UNCHANGED <<day, attempt, last_err>>

\* _fetch_nordpool_day, lines 759-807: one attempt of the retry loop; after the
\* last failure the call logs last_err and returns [].
PriceAttempt ==
    /\ kind = "price" /\ fpc = "request"
    /\ IF AttemptSucceeds(kind, Answer)
       THEN /\ tries' = [tries EXCEPT ![day] = Append(@, Answer)]
            /\ AfterPriceRequest(all_results \cup payload[day])
            /\ UNCHANGED <<sleeps, reported, storeFailed>>
       ELSE IF attempt + 1 < Retries(kind)
       THEN /\ AttemptFailed
            /\ attempt' = attempt + 1
            /\ UNCHANGED <<fpc, day, reported, status, all_results, storeFailed>>
       ELSE /\ tries' = [tries EXCEPT ![day] = Append(@, Answer)]
            /\ sleeps' = [sleeps EXCEPT ![day] = IF SleepsAfter(kind, attempt)
                                                 THEN Append(@, BackoffDelay(attempt))
                                                 ELSE @]
            /\ reported' = [reported EXCEPT ![day] = ThisError]
            /\ AfterPriceRequest(all_results)
            /\ UNCHANGED storeFailed
    /\ UNCHANGED <<kind, upstream, payload, stored, cycleRows, cycles>>
    /\ UNCHANGED <<migVars, laterVars>>

\* fetch_and_store_prices, lines 832-866: every result that is not judged a
\* spike is written, then one commit.
PriceStore ==
    /\ kind = "price" /\ fpc = "store"
    /\ \E spikes \in SUBSET all_results :
        /\ stored' = stored \cup (all_results \ spikes)
        /\ cycleRows' = all_results \ spikes
    /\ status' = [status EXCEPT !["price"] = "success"]
    /\ fpc' = "done"
    /\ UNCHANGED <<kind, day, attempt, upstream, payload, tries, sleeps, last_err,
                   reported, all_results, storeFailed, cycles>>
    /\ UNCHANGED <<migVars, laterVars>>

\* fetch_exchange_rates, lines 899-905 and 923-926: the single attempt.
RatesAttempt ==
    /\ kind = "rates" /\ fpc = "request"
    /\ tries' = [tries EXCEPT ![day] = Append(@, Answer)]
    /\ IF AttemptSucceeds(kind, Answer)
       THEN /\ fpc' = "store"
            /\ UNCHANGED <<last_err, reported, status>>
       ELSE /\ last_err' = ThisError
            /\ reported' = [reported EXCEPT ![day] = ThisError]
            /\ status' = [status EXCEPT !["rates"] = "error"]
            /\ fpc' = "done"
    /\ UNCHANGED <<kind, day, attempt, upstream, payload, sleeps, all_results,
                   stored, cycleRows, storeFailed, cycles>>
    /\ UNCHANGED <<migVars, laterVars>>

\* fetch_exchange_rates, lines 907-921: the rate set is stored, status success.
RatesStore ==
    /\ kind = "rates" /\ fpc = "store"
    /\ stored' = stored \cup {RatesRow}
    /\ cycleRows' = {RatesRow}
    /\ status' = [status EXCEPT !["rates"] = "success"]
    /\ fpc' = "done"
    /\ UNCHANGED <<kind, day, attempt, upstream, payload, tries, sleeps, last_err,
                   reported, all_results, storeFailed, cycles>>
    /\ UNCHANGED <<migVars, laterVars>>

\* An exception while the payload is processed and stored: the connection is
\* closed without commit and the cycle's handler records "error".
StoreFails ==
    /\ fpc = "store"
    /\ storeFailed' = TRUE
    /\ status' = [status EXCEPT ![kind] = "error"]
    /\ fpc' = "done"
    /\ UNCHANGED <<kind, day, attempt, upstream, payload, tries, sleeps, last_err,
                   reported, all_results, stored, cycleRows, cycles>>
    /\ UNCHANGED <<migVars, laterVars>>

\* The cycle's function returns; its locals are gone, the status globals and
\* the stored rows stay.
EndCycle ==
    /\ fpc = "done"
    /\ fpc' = "idle"
    /\ day' = 1
    /\ attempt' = 0
    /\ upstream' = <<>>
    /\ payload' = <<>>
    /\ tries' = <<>>
    /\ sleeps' = <<>>
    /\ last_err' = NoError
    /\ reported' = <<>>
    /\ all_results' = {}
    /\ cycleRows' = {}
    /\ storeFailed' = FALSE
    /\ UNCHANGED <<kind, status, stored, cycles>>
    /\ UNCHANGED <<migVars, laterVars>>

NextFetch ==
    \/ \E k \in Kinds : StartCycle(k)
    \/ EndCycle
    \/ GridAttempt
    \/ GridDecode
    \/ GridStore
    \/ PriceAttempt
    \/ PriceStore
    \/ RatesAttempt
    \/ RatesStore
    \/ StoreFails

InitFetch == MigInit(VersionedStore(SCHEMA_TARGET_VERSION)) /\ FetchIdle /\ LaterIdle

SpecFetch == InitFetch /\ [][NextFetch]_vars

-----------------------------------------------------------------------------
(* Properties of the Migrator and of start-up *)

NothingDurable(p) == durable[p] = EmptyTxn

PendingVersions(p) == {v \in 1..SCHEMA_TARGET_VERSION : v > cur[p]}

\* C1: init_db is all-or-nothing: a run that failed or stopped before the
\* final commit has made none of its tables and ledger rows durable, and a run
\* that succeeded has applied every step current_version+1 .. target.
C1_InitDbAllOrNothing ==
    \A p \in Workers :
        /\ initState[p] = "failed" => NothingDurable(p)
        /\ (initState[p] = "ok" /\ cur[p] < SCHEMA_TARGET_VERSION)
               => Range(applied[p]) = PendingVersions(p)

\* C2: after any sequence of runs, concurrent ones included, no version is in
\* the ledger more than once, and the current version is the largest entry.
C2_LedgerOneRowPerVersion ==
    /\ \A i, j \in 1..Len(db.ledger) : i # j => db.ledger[i] # db.ledger[j]
    /\ db.ledger # <<>> =>
           GetSchemaVersion(db.objs, db.ledger) = SeqMax(db.ledger)

\* C3: with an on-disk version above the target, init_db fails and the store's
\* tables and ledger are exactly as before the call.
C3_DowngradeRefused ==
    \A p \in Workers :
        (pc[p] # "boot" /\ SeqMax(snap[p].ledger) > SCHEMA_TARGET_VERSION) =>
            /\ pc[p] = "crashed"
            /\ initState[p] = "failed"
            /\ db = snap[p]
            /\ NothingDurable(p)
            /\ wrote[p] = <<>> /\ applied[p] = <<>>
            /\ txn[p] = EmptyTxn /\ lock # p

C3_Witness ==
    \E p \in Workers :
        /\ pc[p] = "crashed"
        /\ snap[p].ledger = UpTo(SCHEMA_TARGET_VERSION + 1)
        /\ db = origin

\* The version inferred for a store without ledger.
InferredVersion(objs) ==
    IF {"energy_status", "energy_types", "spot_prices"} \subseteq objs THEN 2
    ELSE IF {"energy_status", "energy_types"} \subseteq objs THEN 1
    ELSE 0

\* C4: for a store without version ledger the run infers 1 (grid tables only),
\* 2 (grid and price tables) or 0; before it applies a later step the ledger
\* has a row for each version 1..inferred, written once each by this run as
\* its first rows (or committed meanwhile by a concurrent run, in which case
\* this run writes none of them); and it calls no migration function of a
\* version up to the inferred one.
C4_LegacyBaseline ==
    \A p \in Workers :
        (legacy[p] /\ pc[p] # "boot") =>
            /\ cur[p] = InferredVersion(snap[p].objs)
            /\ \A i \in 1..Len(applied[p]) : applied[p][i] > cur[p]
            /\ applied[p] # <<>> =>
                \/ /\ Len(wrote[p]) >= cur[p]
                   /\ SubSeq(wrote[p], 1, cur[p]) = UpTo(cur[p])
                   /\ \A i \in (cur[p] + 1)..Len(wrote[p]) : wrote[p][i] > cur[p]
                \/ /\ \A i \in 1..Len(wrote[p]) : wrote[p][i] > cur[p]
                   /\ \A v \in 1..cur[p] : v \in Range(db.ledger)

C4_Witness ==
    \E p \in Workers :
        /\ legacy[p]
        /\ origin = LegacyStore(2)
        /\ cur[p] = 2
        /\ applied[p] = <<3>>
        /\ wrote[p] = <<1, 2, 3>>
        /\ initState[p] = "ok"
        /\ db.ledger = <<1, 2, 3>>

\* C5: a run that starts on a store already at the target version (the second
\* of two runs in a row from version 0) applies no step, writes no ledger row
\* and leaves the ledger as the first run left it.
C5_SecondRunIsNoOp ==
    \A p \in Workers :
        (pc[p] # "boot" /\ LedgerTable \in snap[p].objs
                        /\ SeqMax(snap[p].ledger) = SCHEMA_TARGET_VERSION) =>
            /\ initState[p] = "ok"
            /\ pc[p] \notin RunPcs
            /\ applied[p] = <<>>
            /\ wrote[p] = <<>>
            /\ NothingDurable(p)
            /\ txn[p] = EmptyTxn /\ lock # p

C5_Witness ==
    \E p \in Workers :
        /\ origin = FreshStore
        /\ runs = 2
        /\ snap[p].ledger = UpTo(SCHEMA_TARGET_VERSION)
        /\ initState[p] = "ok"
        /\ wrote[p] = <<>>
        /\ db.ledger = UpTo(SCHEMA_TARGET_VERSION)

\* C6: in a process a scheduler runs, and a fetch or cleanup function has run,
\* only after init_db succeeded and with the store at the target version; when
\* init_db failed, initialize_app raised, and the process has no scheduler and
\* has run no fetch.
C6_MigratorGatesScheduler ==
    \A p \in Workers :
        /\ (scheduler[p] = "running" \/ jobsRun[p] # {}) =>
               /\ initState[p] = "ok"
               /\ LedgerTable \in db.objs
               /\ SeqMax(db.ledger) = SCHEMA_TARGET_VERSION
        /\ initState[p] = "failed" =>
               /\ pc[p] = "crashed"
               /\ scheduler[p] = "none"
               /\ jobsRun[p] = {}

C6_Witness ==
    \E p, q \in Workers :
        /\ scheduler[p] = "running"
        /\ jobsRun[p] = Jobs
        /\ initState[q] = "failed"
        /\ pc[q] = "crashed"

-----------------------------------------------------------------------------
(* Properties of the fetch cycles *)

\* An attempt whose try block raised: an HTTP-level failure, and in the price
\* loop an undecodable body too.
FailedAttempt(k, answer) ==
    answer = "http_error" \/ (k = "price" /\ answer = "bad_body")

FailedAttempts(d) ==
    Cardinality({i \in 1..Len(tries[d]) : FailedAttempt(kind, tries[d][i])})

C8_DecodeFailureNotRetried ==
    kind \in {"grid", "price"} =>
        \A d \in DOMAIN tries :
            \A i \in 1..(Len(tries[d]) - 1) : tries[d][i] # "bad_body"

\* A transient error at the first attempt, and a later attempt within the
\* bound of 3 that would succeed.
LaterAttemptWouldSucceed(d) ==
    /\ upstream[d][1] = "http_error"
    /\ \/ upstream[d][2] = "ok"
       \/ upstream[d][2] = "http_error" /\ upstream[d][3] = "ok"

\* C9: for each of the three integrations, when the first attempt fails with a
\* transient error and a later attempt within the bound would succeed (and
\* nothing else fails: the payload has rows and storing them does not raise),
\* the cycle ends with status "success".
C9_AllIntegrationsRetry ==
    (/\ fpc = "done"
     /\ LaterAttemptWouldSucceed(1)
     /\ ~storeFailed
     /\ kind = "price" => payload[1] # {})
        => status[kind] = "success"

\* C10: when a request of a cycle failed after its last attempt, the cycle ends
\* with a failed status ("error", or "no_data") and has committed no row; in
\* the price cycle for either of the two day requests.
C10_ExhaustedRetriesFailCycle ==
    (/\ fpc = "done"
     /\ \E d \in DOMAIN reported : reported[d] # NoError)
        => /\ status[kind] \in {"error", "no_data"}
           /\ cycleRows = {}

-----------------------------------------------------------------------------
(* Part III: the store transaction of fetch_and_store_data (lines 641-732) *)
(* and of fetch_and_store_prices (lines 832-866), one cycle at a time.     *)
(* The two cycles write disjoint tables; a behaviour runs cycles of one of *)
(* them.                                                                   *)

\* What the cycle's connection reads: its own uncommitted writes included.
ViewTables == IF view.open THEN view.tables ELSE tables

ViewNextId == IF view.open THEN view.nextId ELSE nextId

\* cursor.execute('INSERT OR REPLACE ...'): sqlite3 opens the transaction
\* before the first of them; the row is in the connection's view only.
Execute(table, timestamp, entity, vals) ==
    [open |-> TRUE,
     tables |-> [ViewTables EXCEPT
                    ![table] = InsertOrReplace(@, ViewNextId[table], timestamp, entity, vals)],
     nextId |-> [ViewNextId EXCEPT ![table] = @ + 1]]

\* parse_value(get_item(data.get(array, []), "titleTranslationId", id).get("value"))
FieldValue(json, array, country_code) ==
    LET item == GetItem(json[array], TitleId(array, country_code))
    IN  IF item.raised THEN Raised ELSE ParseValue(ItemValue(item.v))

\* the value written for a field although is_spike_value judged it a spike
ClampedValue_Raw(field_val, recent, spike) == field_val

\* lines 673-680 / 712-719: a spike is replaced by the median of recent
ClampedValue(field_val, recent, spike) ==
    IF spike THEN ComputeMedian(recent) ELSE field_val

\* What the cycle saw when it judged a value (kept for the properties).
Judgement(table, entity, timestamp, field_name, field_val, recent, spike) ==
    [table |-> table, entity |-> entity, timestamp |-> timestamp,
     field |-> field_name, value |-> field_val, recent |-> recent,
     spike |-> spike]

\* close() keeps what the connection has written
AfterClose_Keeps(committed, connection) ==
    IF connection.open THEN connection.tables ELSE committed

\* get_db, lines 332-335: conn.close() in the finally; the writes of a
\* connection that has not committed are not in the store.
AfterClose(committed, connection) == committed

\* The record of a field lookup that raised (kept for the properties).
ParseRaised(table, entity, timestamp) ==
    [table |-> table, entity |-> entity, timestamp |-> timestamp,
     field |-> "raised", value |-> 0, recent |-> <<>>, spike |-> FALSE]

\* An exception inside the with block: get_db closes the connection, which
\* rolls the open transaction back, and the handler records "error".
CycleRaises ==
    /\ tables' = AfterClose(tables, view)
    /\ nextId' = nextId
    /\ view' = ClosedView
    /\ istatus' = [istatus EXCEPT ![ikind] = "error"]
    /\ ipc' = "done"

\* datetime.now(timezone.utc).replace(second=0, microsecond=0): the minute of
\* the last stored cycle still, or a later one (a minute without rows).
CycleMinutes ==
    IF \E r \in tables.energy_status : r.timestamp = now THEN {now, now + 1} ELSE {now}

\* fetch_and_store_data, lines 639-644: the payload is decoded, the timestamp
\* is the current minute, the connection is opened.
StartGrid ==
    /\ ipc = "idle"
    /\ ikind \in {"none", "grid"}
    /\ icycles < MaxIngestCycles
    /\ icycles' = icycles + 1
    /\ \E json \in GridPayloads, minute \in CycleMinutes :
        /\ data' = json
        /\ ts' = minute
        /\ now' = minute
    /\ ikind' = "grid"
    /\ ipc' = "status"
    /\ idx' = 1
    /\ judged' = <<>>
    /\ atStart' = tables
    /\ view' = ClosedView
    /\ UNCHANGED <<tables, nextId, istatus>>
    /\ UNCHANGED <<migVars, fetchVars, taskVars, ratesVars, unitVars>>

\* lines 647-688 for one country: three fields parsed, the four status
\* fields judged and clamped, the energy_status row written.
GridStatusRow ==
    /\ ikind = "grid" /\ ipc = "status"
    /\ LET country_code == CountryOrder[idx]
           consumption == FieldValue(data, "ConsumptionData", country_code)
           production == FieldValue(data, "ProductionData", country_code)
           exchange == FieldValue(data, "NetExchangeData", country_code)
           status_fields == StatusVals(production.v, consumption.v, exchange.v)
           rows == RecentRows(ViewTables.energy_status, country_code, SPIKE_WINDOW_SIZE)
           recent == [f \in Range(StatusFields) |-> ColumnOf(rows, f)]
           spike == [f \in Range(StatusFields) |->
                        IsSpikeValue(status_fields[f], recent[f])]
       IN  IF consumption.raised \/ production.raised \/ exchange.raised
           THEN /\ CycleRaises
                /\ judged' = Append(judged, ParseRaised("energy_status", country_code, ts))
           ELSE /\ view' = Execute("energy_status", ts, country_code,
                                   [f \in Range(StatusFields) |->
                                       ClampedValue(status_fields[f], recent[f], spike[f])])
                /\ judged' = judged \o
                       [i \in 1..Len(StatusFields) |->
                           Judgement("energy_status", country_code, ts, StatusFields[i],
                                     status_fields[StatusFields[i]],
                                     recent[StatusFields[i]], spike[StatusFields[i]])]
                /\ ipc' = "types"
                /\ UNCHANGED <<tables, nextId, istatus>>
    /\ UNCHANGED <<ikind, data, ts, idx, now, icycles, atStart>>
    /\ UNCHANGED <<migVars, fetchVars, taskVars, ratesVars, unitVars>>

\* lines 690-727 for the same country: five fields parsed, judged and
\* clamped, the energy_types row written; then the next country or commit.
GridTypesRow ==
    /\ ikind = "grid" /\ ipc = "types"
    /\ LET country_code == CountryOrder[idx]
           parsed == [f \in Range(TypesFields) |->
                         FieldValue(data, TypesArrayOf(f), country_code)]
           types_fields == [f \in Range(TypesFields) |-> Div1000(parsed[f].v)]
           rows == RecentRows(ViewTables.energy_types, country_code, SPIKE_WINDOW_SIZE)
           recent == [f \in Range(TypesFields) |-> ColumnOf(rows, f)]
           spike == [f \in Range(TypesFields) |->
                        IsSpikeValue(types_fields[f], recent[f])]
       IN  IF \E f \in Range(TypesFields) : parsed[f].raised
           THEN /\ CycleRaises
                /\ judged' = Append(judged, ParseRaised("energy_types", country_code, ts))
                /\ UNCHANGED idx
           ELSE /\ view' = Execute("energy_types", ts, country_code,
                                   [f \in Range(TypesFields) |->
                                       ClampedValue(types_fields[f], recent[f], spike[f])])
                /\ judged' = judged \o
                       [i \in 1..Len(TypesFields) |->
                           Judgement("energy_types", country_code, ts, TypesFields[i],
                                     types_fields[TypesFields[i]],
                                     recent[TypesFields[i]], spike[TypesFields[i]])]
                /\ IF idx < Len(CountryOrder)
                   THEN idx' = idx + 1 /\ ipc' = "status"
                   ELSE idx' = idx /\ ipc' = "commit"
                /\ UNCHANGED <<tables, nextId, istatus>>
    /\ UNCHANGED <<ikind, data, ts, now, icycles, atStart>>
    /\ UNCHANGED <<migVars, fetchVars, taskVars, ratesVars, unitVars>>

\* The points of all_results: (timestamp, zone, price), delivery hours that
\* are stored already (the last of the history) or new.
PricePointsOf ==
    {[timestamp |-> h, zone |-> z, price |-> m * UnitsPerMilli] :
        h \in {SPIKE_MIN_HISTORY, SPIKE_MIN_HISTORY + 1}, z \in PriceZones,
        m \in {50200, 5000000}}

PriceResults ==
    UNION {[1..n -> PricePointsOf] : n \in 1..MaxPoints}

\* fetch_and_store_prices, lines 826-834: all_results is not empty, the
\* connection is opened.
StartPriceWith(results) ==
    /\ ipc = "idle"
    /\ ikind \in {"none", "price"}
    /\ icycles < MaxIngestCycles
    /\ icycles' = icycles + 1
    /\ data' \in results
    /\ ikind' = "price"
    /\ ipc' = "points"
    /\ idx' = 1
    /\ judged' = <<>>
    /\ atStart' = tables
    /\ view' = ClosedView
    /\ UNCHANGED <<tables, nextId, ts, istatus, now>>
    /\ UNCHANGED <<migVars, fetchVars, taskVars, ratesVars, unitVars>>

StartPrice == StartPriceWith(PriceResults)

\* the point is written although is_spike_value judged it a spike
KeepsPoint_Always(spike) == TRUE

\* lines 848-854: a point judged a spike is skipped
KeepsPoint(spike) == ~spike

\* lines 836-861 for one point of all_results.
PricePoint ==
    /\ ikind = "price" /\ ipc = "points"
    /\ LET point == data[idx]
           recent_prices == GetRecentValues(ViewTables.spot_prices, "price",
                                            point.zone, SPIKE_WINDOW_SIZE)
           spike == IsSpikeValue(point.price, recent_prices)
       IN  /\ IF KeepsPoint(spike)
              THEN view' = Execute("spot_prices", point.timestamp, point.zone,
                                   [price |-> point.price])
              ELSE view' = view
           /\ judged' = Append(judged,
                               Judgement("spot_prices", point.zone, point.timestamp,
                                         "price", point.price, recent_prices, spike))
    /\ IF idx < Len(data)
       THEN idx' = idx + 1 /\ ipc' = "points"
       ELSE idx' = idx /\ ipc' = "commit"
    /\ UNCHANGED <<tables, nextId, ikind, data, ts, istatus, now, icycles, atStart>>
    /\ UNCHANGED <<migVars, fetchVars, taskVars, ratesVars, unitVars>>

\* conn.commit() and the lines after it (729-732, 863-866).
IngestCommit ==
    /\ ipc = "commit"
    /\ tables' = ViewTables
    /\ nextId' = ViewNextId
    /\ view' = ClosedView
    /\ istatus' = [istatus EXCEPT ![ikind] = "success"]
    /\ ipc' = "done"
    /\ UNCHANGED <<ikind, data, ts, idx, judged, now, icycles, atStart>>
    /\ UNCHANGED <<migVars, fetchVars, taskVars, ratesVars, unitVars>>

\* A statement of the cycle raises (sqlite3.OperationalError: the database
\* is locked by another process, the disk is full): lines 734-737, 868-871.
IngestFails ==
    /\ ipc \in {"status", "types", "points", "commit"}
    /\ CycleRaises
    /\ UNCHANGED <<ikind, data, ts, idx, judged, now, icycles, atStart>>
    /\ UNCHANGED <<migVars, fetchVars, taskVars, ratesVars, unitVars>>

\* The cycle's function returns.
EndIngest ==
    /\ ipc = "done"
    /\ ipc' = "idle"
    /\ data' = <<>>
    /\ idx' = 0
    /\ judged' = <<>>
    /\ atStart' = tables
    /\ UNCHANGED <<tables, nextId, view, ikind, ts, istatus, now, icycles>>
    /\ UNCHANGED <<migVars, fetchVars, taskVars, ratesVars, unitVars>>

NextIngest ==
    \/ StartGrid
    \/ GridStatusRow
    \/ GridTypesRow
    \/ StartPrice
    \/ PricePoint
    \/ IngestCommit
    \/ IngestFails
    \/ EndIngest

InitIngest ==
    /\ MigInit(VersionedStore(SCHEMA_TARGET_VERSION))
    /\ FetchIdle
    /\ TasksIdle
    /\ RatesIdle
    /\ UnitIdle
    /\ \E h \in HistoryKinds : IngestInit(h)

SpecIngest == InitIngest /\ [][NextIngest]_vars

-----------------------------------------------------------------------------
(* Properties of the store transaction *)

GridTables == {"energy_status", "energy_types"}

\* the rows of a table that were not in it when the cycle in progress started
NewRows(table) == tables[table] \ atStart[table]

\* C11: the rows another connection sees are those of before the grid cycle,
\* or they hold the rows of all four countries in both tables, written by
\* the cycle at its timestamp; no state in between is ever committed, however
\* far the cycle got before it raised.
C11_GridCycleAtomic ==
    ikind = "grid" =>
        \/ tables = atStart
        \/ \A table \in GridTables :
              /\ {r.entity : r \in NewRows(table)} = COUNTRIES
              /\ \A r \in NewRows(table) : r.timestamp = ts
              /\ Cardinality(NewRows(table)) = Len(CountryOrder)

\* a grid cycle raised after it had written rows of some countries
C11_Witness ==
    /\ ikind = "grid"
    /\ ipc = "done"
    /\ istatus["grid"] = "error"
    /\ idx = VariedCountry
    /\ Len(judged) > Len(StatusFields) + Len(TypesFields)
    /\ tables = atStart

\* the cycle in progress has not raised
CycleAlive ==
    \/ ipc \in {"status", "types", "points", "commit"}
    \/ ipc = "done" /\ istatus[ikind] = "success"

\* the tables as the cycle leaves them: its view, the store once committed
CycleTables == IF ipc = "done" THEN tables ELSE ViewTables

Judgements == {judged[i] : i \in 1..Len(judged)}

HasRow(table, timestamp, entity) ==
    \E r \in CycleTables[table] : r.timestamp = timestamp /\ r.entity = entity

\* C12: every grid or generation-mix field the cycle judged has its row
\* written, holding the median of the field's history window if the field was
\* judged a spike and the parsed value otherwise.  A price point judged a
\* spike adds no row; the points after it are still judged, and every point
\* not judged a spike has its row.
C12_SpikeClampedOrDropped ==
    CycleAlive =>
        /\ ikind = "grid" =>
              \A j \in Judgements :
                  \E r \in CycleTables[j.table] :
                      /\ r.timestamp = j.timestamp
                      /\ r.entity = j.entity
                      /\ r.vals[j.field] = IF j.spike THEN ComputeMedian(j.recent)
                                           ELSE j.value
        /\ ikind = "price" =>
              /\ ipc \in {"commit", "done"} => Len(judged) = Len(data)
              /\ \A j \in Judgements :
                    ~j.spike => HasRow("spot_prices", j.timestamp, j.entity)
              /\ \A r \in CycleTables.spot_prices \ atStart.spot_prices :
                    \E j \in Judgements :
                        /\ ~j.spike
                        /\ j.timestamp = r.timestamp /\ j.entity = r.entity
                        /\ j.value = r.vals.price

\* a price cycle committed: its first point was judged a spike and left no
\* row, its second point was stored
C12_Witness ==
    /\ ikind = "price" /\ ipc = "done" /\ istatus["price"] = "success"
    /\ Len(judged) = 2
    /\ judged[1].spike /\ ~judged[2].spike
    /\ judged[1].timestamp # judged[2].timestamp
    /\ ~HasRow("spot_prices", judged[1].timestamp, judged[1].entity)
    /\ HasRow("spot_prices", judged[2].timestamp, judged[2].entity)

\* a grid cycle committed a row whose field was judged a spike: the median
\* of the window is in the row, not the value of the payload
GridSpikeClamped ==
    /\ ikind = "grid" /\ ipc = "done" /\ istatus["grid"] = "success"
    /\ \E j \in Judgements :
          /\ j.spike /\ j.value # ComputeMedian(j.recent)
          /\ \E r \in tables[j.table] :
                /\ r.timestamp = j.timestamp /\ r.entity = j.entity
                /\ r.vals[j.field] = ComputeMedian(j.recent)

TableNames == {"energy_status", "energy_types", "spot_prices"}

\* the cycle in progress has committed rows for keys that were stored before
ReingestedKeys(table) ==
    {r \in NewRows(table) :
        \E q \in atStart[table] : q.timestamp = r.timestamp /\ q.entity = r.entity}

\* C18: every table holds at most one row per (timestamp, country),
\* respectively (timestamp, zone), after any sequence of cycles, and a cycle
\* that writes only keys that are stored already leaves the number of rows
\* as it was.
C18_UpsertByKey ==
    \A table \in TableNames :
        /\ Cardinality({<<r.timestamp, r.entity>> : r \in tables[table]})
              = Cardinality(tables[table])
        /\ ReingestedKeys(table) = NewRows(table) =>
              Cardinality(tables[table]) = Cardinality(atStart[table])

\* a grid cycle committed its rows for a minute that was stored already,
\* with a value that differs from the stored one
C18_Witness ==
    /\ ikind = "grid" /\ ipc = "done" /\ istatus["grid"] = "success"
    /\ NewRows("energy_status") # {}
    /\ ReingestedKeys("energy_status") = NewRows("energy_status")
    /\ \E r \in NewRows("energy_status"), q \in atStart.energy_status :
          /\ q.timestamp = r.timestamp /\ q.entity = r.entity
          /\ q.vals # r.vals

\* the judgement the grid cycle in progress made of one status field of a country
StatusJudgement(country_code, field_name) ==
    CHOOSE j \in Judgements :
        j.table = "energy_status" /\ j.entity = country_code /\ j.field = field_name

\* the countries whose energy_status row the grid cycle in progress has written
StatusJudged ==
    {j.entity : j \in {k \in Judgements : k.table = "energy_status" /\ k.field # "raised"}}

\* the net exchange the cycle parsed for a country
ParsedExchange(country_code) == FieldValue(data, "NetExchangeData", country_code).v

StatusRow(country_code) ==
    CHOOSE r \in CycleTables.energy_status :
        r.timestamp = ts /\ r.entity = country_code

\* C19 as stated: of the import and export of every reading exactly one is
\* non-zero, and these are the values in the reading's GridSnapshot row.
C19_ExactlyOneNonZero ==
    (ikind = "grid" /\ CycleAlive) =>
        \A c \in StatusJudged :
            LET imp == StatusJudgement(c, "import_value").value
                exp == StatusJudgement(c, "export_value").value
            IN  /\ (imp # 0) # (exp # 0)
                /\ StatusRow(c).vals.import_value = imp
                /\ StatusRow(c).vals.export_value = exp

\* C19 amended: of the import and export of every reading at most one is
\* non-zero (both are zero when the net exchange is zero); neither is
\* negative and import minus export is the net exchange divided by 1000.
\* The GridSnapshot row holds these values, except that a field judged a
\* spike holds the median of its history window.
C19_ImportExportSplit ==
    (ikind = "grid" /\ CycleAlive) =>
        \A c \in StatusJudged :
            LET ji == StatusJudgement(c, "import_value")
                je == StatusJudgement(c, "export_value")
            IN  /\ ji.value = 0 \/ je.value = 0
                /\ ji.value >= 0 /\ je.value >= 0
                /\ ji.value - je.value = ParsedExchange(c) * UnitsPerMilli
                /\ StatusRow(c).vals.import_value =
                       IF ji.spike THEN ComputeMedian(ji.recent) ELSE ji.value
                /\ StatusRow(c).vals.export_value =
                       IF je.spike THEN ComputeMedian(je.recent) ELSE je.value

\* a committed grid cycle with an export reading written as parsed and an
\* import reading judged a spike, whose row holds the median instead
C19_Witness ==
    /\ ikind = "grid" /\ ipc = "done" /\ istatus["grid"] = "success"
    /\ ParsedExchange("NO") > 0
    /\ ParsedExchange("SE") < 0
    /\ StatusJudgement("NO", "import_value").spike
    /\ StatusRow("NO").vals.import_value # StatusJudgement("NO", "import_value").value
    /\ StatusRow("SE").vals.export_value = StatusJudgement("SE", "export_value").value

\* The entry of a country in a payload array is malformed: the array is
\* missing, null or no array, holds no object for the country or something
\* that is no object in front of it, or the object's value is missing or is
\* not a JSON number a float can hold.
Malformed(json, array, country_code) ==
    LET collection == json[array]
        items == collection.items
        found == {i \in 1..Len(items) :
                     items[i].obj /\ items[i].id = TitleId(array, country_code)}
    IN  \/ collection.shape # "list"
        \/ found = {}
        \/ \E i \in found :
              /\ \A k \in found : i <= k
              /\ \/ ~items[i].has
                 \/ items[i].value.t # "num"
                 \/ \E k \in 1..(i - 1) : ~items[k].obj

\* C20: no grid cycle fails on a field lookup, and every field the cycle
\* judged whose payload entry was malformed was judged with the value 0.0
\* (import and export both, for the net exchange).
C20_MalformedFieldIsZero ==
    ikind = "grid" =>
        \A j \in Judgements :
            /\ j.field # "raised"
            /\ (j.field \in {"import_value", "export_value"}
                /\ Malformed(data, "NetExchangeData", j.entity)) => j.value = 0
            /\ (j.field = "wind" /\ Malformed(data, "WindData", j.entity)) => j.value = 0

-----------------------------------------------------------------------------
(* Part IV, actions: scheduler jobs, ensure_today_prices and trigger_fetch *)
(* in the threads of one worker process.                                   *)

\* a run or call that has returned, as the log keeps it
Returns(thread, task, raised, exit, acquired, fetched, result, holder) ==
    [thread |-> thread, task |-> task, raised |-> raised, exit |-> exit,
     acquired |-> acquired, fetched |-> fetched, result |-> result,
     holder |-> holder]

\* the threads in which a task function of the type is executing
InFlight(task) ==
    {j \in Jobs : tpc[j] = "running" /\ TaskType(j) = task}
        \cup {r \in RequestThreads :
                \/ task = "price" /\ tpc[r] \in {"fetch", "trigger_prices"}
                \/ task = "grid" /\ tpc[r] = "trigger_data"}

HandlerCatches_NotCleanup(task) == task # "cleanup"

\* the try/except Exception around the whole body of fetch_and_store_data,
\* fetch_and_store_prices, cleanup_old_data and fetch_exchange_rates
HandlerCatches(task) == TRUE

\* how a task function of the type ends when an exception was raised in it
ExitOf(task, raised) ==
    IF raised /\ ~HandlerCatches(task) THEN "escaped" ELSE "returned"

\* a price fetch that went through may have stored rows of today
PricesAfter(raised) == IF raised THEN {todayPrices} ELSE {todayPrices, TRUE}

LockAcquired_Always(holder) == TRUE

\* _ensure_prices_lock.acquire(blocking=False): taken only when free
LockAcquired(holder) == holder = NoThread

\* the scheduler fires a job: a run starts unless the job's previous run is
\* still going (max_instances = 1)
StartJob(j) ==
    /\ tpc[j] = "idle"
    /\ tstarts < MaxStarts
    /\ tpc' = [tpc EXCEPT ![j] = "running"]
    /\ tstarts' = tstarts + 1
    /\ UNCHANGED <<ensureLock, todayPrices, debugEndpoints, tlog>>
    /\ UNCHANGED <<migVars, fetchVars, ingestVars, ratesVars, unitVars>>

\* the job function of the run ends, an exception raised inside it or not
FinishJob(j) ==
    /\ tpc[j] = "running"
    /\ \E raised \in BOOLEAN :
        /\ tlog' = Append(tlog, Returns(j, TaskType(j), raised,
                                        ExitOf(TaskType(j), raised),
                                        FALSE, FALSE, "None", NoThread))
        /\ todayPrices' \in (IF TaskType(j) = "price" THEN PricesAfter(raised)
                             ELSE {todayPrices})
    /\ tpc' = [tpc EXCEPT ![j] = "idle"]
    /\ UNCHANGED <<ensureLock, debugEndpoints, tstarts>>
    /\ UNCHANGED <<migVars, fetchVars, ingestVars, ratesVars, unitVars>>

\* ensure_today_prices, lines 935-936: the non-blocking acquire; a call that
\* does not get the lock returns False
EnsureCall(r) ==
    /\ tpc[r] = "idle"
    /\ tstarts < MaxStarts
    /\ tstarts' = tstarts + 1
    /\ IF LockAcquired(ensureLock)
       THEN /\ ensureLock' = r
            /\ tpc' = [tpc EXCEPT ![r] = "count"]
            /\ tlog' = tlog
       ELSE /\ tlog' = Append(tlog, Returns(r, "ensure", FALSE, "returned",
                                            FALSE, FALSE, "False", ensureLock))
            /\ UNCHANGED <<ensureLock, tpc>>
    /\ UNCHANGED <<todayPrices, debugEndpoints>>
    /\ UNCHANGED <<migVars, fetchVars, ingestVars, ratesVars, unitVars>>

\* lines 939-953: the count of today's prices; none starts the fetch, some
\* returns False through the finally that releases the lock
EnsureCount(r) ==
    /\ tpc[r] = "count"
    /\ IF ~todayPrices
       THEN /\ tpc' = [tpc EXCEPT ![r] = "fetch"]
            /\ UNCHANGED <<ensureLock, tlog>>
       ELSE /\ tpc' = [tpc EXCEPT ![r] = "idle"]
            /\ ensureLock' = IF ensureLock = r THEN NoThread ELSE ensureLock
            /\ tlog' = Append(tlog, Returns(r, "ensure", FALSE, "returned",
                                            TRUE, FALSE, "False", NoThread))
    /\ UNCHANGED <<todayPrices, debugEndpoints, tstarts>>
    /\ UNCHANGED <<migVars, fetchVars, ingestVars, ratesVars, unitVars>>

\* lines 951-955: fetch_and_store_prices has ended; True is returned and the
\* lock released
EnsureFetched(r) ==
    /\ tpc[r] = "fetch"
    /\ \E raised \in BOOLEAN :
        /\ tlog' = Append(tlog, Returns(r, "ensure", raised,
                                        ExitOf("price", raised), TRUE, TRUE,
                                        IF ExitOf("price", raised) = "returned"
                                        THEN "True" ELSE "None", NoThread))
        /\ todayPrices' \in PricesAfter(raised)
    /\ tpc' = [tpc EXCEPT ![r] = "idle"]
    /\ ensureLock' = IF ensureLock = r THEN NoThread ELSE ensureLock
    /\ UNCHANGED <<debugEndpoints, tstarts>>
    /\ UNCHANGED <<migVars, fetchVars, ingestVars, ratesVars, unitVars>>

\* trigger_fetch, lines 1501-1503: with the debug endpoints enabled the
\* request thread calls fetch_and_store_data
TriggerFetch(r) ==
    /\ tpc[r] = "idle"
    /\ debugEndpoints
    /\ tstarts < MaxStarts
    /\ tstarts' = tstarts + 1
    /\ tpc' = [tpc EXCEPT ![r] = "trigger_data"]
    /\ UNCHANGED <<ensureLock, todayPrices, debugEndpoints, tlog>>
    /\ UNCHANGED <<migVars, fetchVars, ingestVars, ratesVars, unitVars>>

\* line 1504: fetch_and_store_data has returned, fetch_and_store_prices is
\* called
TriggerData(r) ==
    /\ tpc[r] = "trigger_data"
    /\ \E raised \in BOOLEAN :
        IF ExitOf("grid", raised) = "returned"
        THEN /\ tpc' = [tpc EXCEPT ![r] = "trigger_prices"]
             /\ tlog' = tlog
        ELSE /\ tpc' = [tpc EXCEPT ![r] = "idle"]
             /\ tlog' = Append(tlog, Returns(r, "grid", raised, "escaped",
                                             FALSE, FALSE, "None", NoThread))
    /\ UNCHANGED <<ensureLock, todayPrices, debugEndpoints, tstarts>>
    /\ UNCHANGED <<migVars, fetchVars, ingestVars, ratesVars, unitVars>>

\* line 1505: fetch_and_store_prices has returned, the route answers
TriggerPrices(r) ==
    /\ tpc[r] = "trigger_prices"
    /\ \E raised \in BOOLEAN :
        /\ tlog' = Append(tlog, Returns(r, "price", raised,
                                        ExitOf("price", raised),
                                        FALSE, FALSE, "None", NoThread))
        /\ todayPrices' \in PricesAfter(raised)
    /\ tpc' = [tpc EXCEPT ![r] = "idle"]
    /\ UNCHANGED <<ensureLock, debugEndpoints, tstarts>>
    /\ UNCHANGED <<migVars, fetchVars, ingestVars, ratesVars, unitVars>>

NextTasks ==
    \/ \E j \in Jobs : StartJob(j)
    \/ \E j \in Jobs : FinishJob(j)
    \/ \E r \in RequestThreads : EnsureCall(r)
    \/ \E r \in RequestThreads : EnsureCount(r)
    \/ \E r \in RequestThreads : EnsureFetched(r)
    \/ \E r \in RequestThreads : TriggerFetch(r)
    \/ \E r \in RequestThreads : TriggerData(r)
    \/ \E r \in RequestThreads : TriggerPrices(r)

\* a worker whose initialize_app has returned: the store is at the target
\* version, the scheduler runs, nothing is in flight
InitTasks ==
    /\ MigInit(VersionedStore(SCHEMA_TARGET_VERSION))
    /\ FetchIdle
    /\ IngestIdle
    /\ RatesIdle
    /\ UnitIdle
    /\ \E endpoints \in BOOLEAN : TasksInit(endpoints)

SpecTasks == InitTasks /\ [][NextTasks]_vars

\* C13: at no time are two executions of the same task type in flight
\* together, whether the scheduler or ensure_today_prices (or trigger_fetch)
\* started them.
C13_OneExecutionPerTask ==
    \A task \in TaskTypes : Cardinality(InFlight(task)) <= 1

\* the calls of ensure_today_prices that have returned
EnsureCalls == {i \in 1..Len(tlog) : tlog[i].task = "ensure"}

\* C14: of overlapping calls of ensure_today_prices only the one that holds
\* the lock goes on to the count and, with no price for today, to the fetch;
\* a call made while the lock is held has failed the acquire and returned
\* False in that step, without fetching.
C14_OneEnsureFetches ==
    /\ Cardinality({r \in RequestThreads : tpc[r] \in {"count", "fetch"}}) <= 1
    /\ \A r \in RequestThreads : tpc[r] \in {"count", "fetch"} <=> ensureLock = r
    /\ \A r \in RequestThreads : tpc[r] = "fetch" => ensureLock = r
    /\ \A i \in EnsureCalls :
        /\ ~tlog[i].acquired =>
            /\ tlog[i].holder \in RequestThreads \ {tlog[i].thread}
            /\ ~tlog[i].fetched
            /\ tlog[i].result = "False"
        /\ tlog[i].acquired => (tlog[i].result = "True" <=> tlog[i].fetched)

\* r2 called while r1 held the lock with no price for today stored: r2 was
\* turned away and r1 ran the fetch.
C14_Witness ==
    /\ Len(tlog) >= 2
    /\ tlog[1] = Returns("r2", "ensure", FALSE, "returned", FALSE, FALSE,
                         "False", "r1")
    /\ tlog[2].thread = "r1" /\ tlog[2].task = "ensure" /\ tlog[2].fetched
    /\ tlog[2].result = "True"

\* the runs of scheduled jobs that have ended
JobRuns == {i \in 1..Len(tlog) : tlog[i].thread \in Jobs}

\* C17: a scheduled run in which an exception was raised has returned
\* normally all the same, and no job thread is left anywhere but idle or
\* running, so that later runs of the job and runs of the other jobs start.
C17_JobsContainFailures ==
    /\ \A i \in JobRuns : tlog[i].exit = "returned"
    /\ \A j \in Jobs : tpc[j] \in {"idle", "running"}
    /\ \A j \in Jobs : (tpc[j] = "idle" /\ tstarts < MaxStarts) => ENABLED StartJob(j)

\* a run of a job failed, a later run of the same job went through, and a
\* run of another job ended after the failure.
C17_Witness ==
    \E i, k, m \in JobRuns :
        /\ i < k /\ i < m
        /\ tlog[i].raised /\ ~tlog[k].raised
        /\ tlog[k].thread = tlog[i].thread
        /\ tlog[m].thread # tlog[i].thread

-----------------------------------------------------------------------------
(* Part V, actions: fetch_exchange_rates in the scheduler of each worker   *)
(* and the reads of the routes, against the one key_value_store.           *)

\* fetch_exchange_rates, lines 900-915: the response arrives and new_rates is
\* built; a failed request, an undecodable body or a rate float() rejects
\* ends the fetch in the handler with status error
ExchangeRespond(w) ==
    /\ rpc[w] = "idle"
    /\ rfetches < MaxRateFetches
    /\ rfetches' = rfetches + 1
    /\ \E response \in Responses :
        IF ~response.ok \/ FloatRaises(response)
        THEN /\ rstatus' = [rstatus EXCEPT ![w] = "error"]
             /\ UNCHANGED <<rpc, resp, newRates>>
        ELSE /\ resp' = [resp EXCEPT ![w] = response]
             /\ newRates' = [newRates EXCEPT ![w] = NewRates(response)]
             /\ rpc' = [rpc EXCEPT ![w] = "store"]
             /\ rstatus' = rstatus
    /\ UNCHANGED <<kv, lastFetch, rread>>
    /\ UNCHANGED <<migVars, fetchVars, ingestVars, taskVars, unitVars>>

\* lines 917-920 with _set_exchange_rates_in_db: INSERT OR REPLACE of the row
\* 'exchange_rates', commit, status success
ExchangeStore(w) ==
    /\ rpc[w] = "store"
    /\ kv' = [present |-> TRUE, value |-> Dumps(newRates[w])]
    /\ rstatus' = [rstatus EXCEPT ![w] = "success"]
    /\ lastFetch' = [worker |-> w, response |-> resp[w], stored |-> newRates[w]]
    /\ rread' = NoRead
    /\ rpc' = [rpc EXCEPT ![w] = "idle"]
    /\ UNCHANGED <<resp, newRates, rfetches>>
    /\ UNCHANGED <<migVars, fetchVars, ingestVars, taskVars, unitVars>>

\* the write raises (the store stays locked by another writer past the
\* timeout): nothing is stored, status error
ExchangeStoreFails(w) ==
    /\ rpc[w] = "store"
    /\ rstatus' = [rstatus EXCEPT ![w] = "error"]
    /\ rpc' = [rpc EXCEPT ![w] = "idle"]
    /\ UNCHANGED <<kv, resp, newRates, lastFetch, rread, rfetches>>
    /\ UNCHANGED <<migVars, fetchVars, ingestVars, taskVars, unitVars>>

\* a route reads the rates (lines 1197, 1494)
ExchangeRead(w) ==
    /\ \E raised \in BOOLEAN :
        rread' = [worker |-> w, raised |-> raised,
                  rates |-> GetExchangeRatesFromDb(kv, raised)]
    /\ UNCHANGED <<kv, rpc, resp, newRates, rstatus, lastFetch, rfetches>>
    /\ UNCHANGED <<migVars, fetchVars, ingestVars, taskVars, unitVars>>

NextExchange ==
    \/ \E w \in Workers : ExchangeRespond(w)
    \/ \E w \in Workers : ExchangeStore(w)
    \/ \E w \in Workers : ExchangeStoreFails(w)
    \/ \E w \in Workers : ExchangeRead(w)

InitExchange ==
    /\ MigInit(VersionedStore(SCHEMA_TARGET_VERSION))
    /\ FetchIdle
    /\ IngestIdle
    /\ TasksIdle
    /\ UnitIdle
    /\ RatesInit

SpecExchange == InitExchange /\ [][NextExchange]_vars

\* C15: after a fetch has succeeded with SEK = r, a read in any worker
\* returns SEK = r until the next fetch succeeds.
C15_ReadsReturnFetched ==
    (lastFetch.worker # "none" /\ rread.worker # "none")
        => rread.rates["SEK"] = lastFetch.stored["SEK"]

\* C16: after a successful fetch the stored set has exactly the keys EUR,
\* SEK, DKK, NOK, EUR is 1.0, and each other rate is the one the response of
\* that fetch gave.
C16_StoredSetFromResponse ==
    lastFetch.worker # "none" =>
        LET rates == Loads(kv.value)
            given == lastFetch.response.rates
        IN  /\ DOMAIN rates = RangeOf(Currencies)
            /\ rates["EUR"] = 10000
            /\ \A c \in RangeOf(Requested) :
                c \in DOMAIN given /\ rates[c] = given[c]

-----------------------------------------------------------------------------
(* Part VI: parse_value, called once.                                      *)

\* the store and the other parts at rest
AtRest ==
    /\ MigInit(VersionedStore(SCHEMA_TARGET_VERSION))
    /\ FetchIdle
    /\ IngestIdle
    /\ TasksIdle
    /\ RatesIdle

ParseChars == {" ", "-", "7", "0", NonAscii, "x"}

StringsUpTo(chars, n) == UNION {[1..k -> chars] : k \in 0..n}

\* the values given to parse_value: those of the payloads, every short string,
\* the string "1500" and two more numbers
ParseInputs ==
    TestValues
        \cup {JStr(s) : s \in StringsUpTo(ParseChars, MaxChars)}
        \cup {JStr(<<"1", "5", "0", "0">>), JNum(1500), JNum(0 - 5), JBool(FALSE)}

InitParse ==
    /\ AtRest
    /\ \E value \in ParseInputs : CallOf("parse_value", value)

\* parse_value(value)
CallParseValue ==
    /\ fn = "parse_value" /\ ~called
    /\ out' = ParseValue(arg)
    /\ called' = TRUE
    /\ UNCHANGED <<fn, arg>>
    /\ UNCHANGED <<migVars, fetchVars, ingestVars, taskVars, ratesVars>>

NextParse == CallParseValue

SpecParse == InitParse /\ [][NextParse]_vars

\* C21: parse_value never raises; null gives 0.0, a number its value, a
\* string the number read from it once the non-ASCII characters are removed
\* and it is trimmed, 0.0 when nothing or no number is left; so "1500" is
\* 1.5 after /1000.
C21_ParseValueTotal ==
    (fn = "parse_value" /\ called) =>
        /\ ~out.raised
        /\ arg.t = "null" => out.v = 0
        /\ arg.t = "num" => out.v = arg.n
        /\ arg.t = "str" =>
            LET cleaned == Strip(AsciiOnly(arg.s))
            IN  out.v = IF cleaned # <<>> /\ IsNumeral(cleaned)
                        THEN NumeralValue(cleaned) ELSE 0
        /\ arg = JStr(<<"1", "5", "0", "0">>) => Div1000(out.v) = 1500 * UnitsPerMilli

-----------------------------------------------------------------------------
(* Part VI: _fetch_nordpool_day, the loop over the decoded payload.        *)

\* An entry of multiAreaEntries: deliveryStart (absent or empty: "missing";
\* not an ISO time: "bad"; else the hour and minute it names) and
\* entryPerArea, the <<zone, price>> members in the order of the object.
\* A price is a JSON number or null.
NordEntry(start, per_area) == [start |-> start, per_area |-> per_area]

StartAt(hour, minute) == [kind |-> "ok", hour |-> hour, minute |-> minute]

StartMissing == [kind |-> "missing", hour |-> 0, minute |-> 0]

StartBad == [kind |-> "bad", hour |-> 0, minute |-> 0]

\* float(price) with abs(price_val) > 1e6 refused (lines 798-802); prices in
\* whole EUR
PRICE_LIMIT == 1000000

ValidPrice(price) ==
    CASE price.t = "null" -> FALSE
      [] price.t = "num" -> Abs(price.n) <= PRICE_LIMIT

SeenAfter_Valid(seen, key, price) ==
    IF ValidPrice(price) THEN seen \cup {key} ELSE seen

\* seen_hours[key] = True, line 797: before the price is looked at
SeenAfter(seen, key, price) == seen \cup {key}

\* lines 784-805 for the members of one entry, from member i on; acc is
\* [results, seen_hours]
RECURSIVE PerArea(_, _, _, _, _)
PerArea(start, per_area, i, zones, acc) ==
    IF i > Len(per_area) THEN acc
    ELSE LET zone == per_area[i][1]
             price == per_area[i][2]
             key == <<zone, start.hour>>
             next ==
                IF zone \notin zones \/ start.kind = "bad" \/ key \in acc.seen
                THEN acc
                ELSE [results |-> IF ValidPrice(price)
                                  THEN Append(acc.results,
                                              [hour |-> start.hour, zone |-> zone,
                                               price |-> price.n])
                                  ELSE acc.results,
                      seen |-> SeenAfter(acc.seen, key, price)]
         IN  PerArea(start, per_area, i + 1, zones, next)

\* lines 780-807: the loop over the entries, from entry i on
RECURSIVE Entries(_, _, _, _)
Entries(entries, i, zones, acc) ==
    IF i > Len(entries) THEN acc
    ELSE Entries(entries, i + 1, zones,
                 IF entries[i].start.kind = "missing" THEN acc
                 ELSE PerArea(entries[i].start, entries[i].per_area, 1, zones, acc))

\* _fetch_nordpool_day once the payload is decoded: results
FetchNordpoolDay(entries, zones) ==
    Entries(entries, 1, zones, [results |-> <<>>, seen |-> {}]).results

NordStarts == {StartMissing, StartBad, StartAt(6, 0), StartAt(6, 15), StartAt(7, 0)}

NordPrices == {JNum(50), JNum(60), JNull, JNum(2 * PRICE_LIMIT)}

NordPerArea ==
    {<<>>} \cup {<<<<"SE3", price>>>> : price \in NordPrices}
           \cup {<<<<"FI", JNum(70)>>, <<"SE3", price>>>> : price \in NordPrices}

NordEntries == {NordEntry(start, per_area) : start \in NordStarts, per_area \in NordPerArea}

NordPayloads == UNION {[1..k -> NordEntries] : k \in 0..MaxEntries}

InitNordpool ==
    /\ AtRest
    /\ \E entries \in NordPayloads : CallOf("_fetch_nordpool_day", entries)

CallFetchNordpoolDay ==
    /\ fn = "_fetch_nordpool_day" /\ ~called
    /\ out' = FetchNordpoolDay(arg, PriceZones)
    /\ called' = TRUE
    /\ UNCHANGED <<fn, arg>>
    /\ UNCHANGED <<migVars, fetchVars, ingestVars, taskVars, ratesVars>>

NextNordpool == CallFetchNordpoolDay

SpecNordpool == InitNordpool /\ [][NextNordpool]_vars

\* the prices the payload carries for a zone and hour, in payload order
Observed(entries, zone, hour) ==
    LET Of(entry) ==
            IF entry.start.kind = "ok" /\ entry.start.hour = hour
            THEN SelectSeq(entry.per_area, LAMBDA member : member[1] = zone)
            ELSE <<>>
        F[i \in 0..Len(entries)] ==
            IF i = 0 THEN <<>> ELSE F[i - 1] \o Of(entries[i])
    IN  [i \in 1..Len(F[Len(entries)]) |-> F[Len(entries)][i][2]]

NordHours == {start.hour : start \in {x \in NordStarts : x.kind = "ok"}}

\* C26: for each requested zone and each hour for which the payload carries
\* a valid price the result holds exactly one entry, and its price is the
\* first value the payload gives for that hour.
C26_OnePricePerZoneHour ==
    (fn = "_fetch_nordpool_day" /\ called) =>
        \A zone \in PriceZones, hour \in NordHours :
            LET observed == Observed(arg, zone, hour)
                entries == {i \in 1..Len(out) : out[i].zone = zone /\ out[i].hour = hour}
            IN  (\E i \in 1..Len(observed) : ValidPrice(observed[i])) =>
                    /\ Cardinality(entries) = 1
                    /\ \A i \in entries : out[i].price = observed[1].n

-----------------------------------------------------------------------------
(* Part VI: cleanup_old_data.  Timestamps here are whole days.             *)

\* DATA_RETENTION_DAYS, the default of the environment variable
DATA_RETENTION_DAYS == 200

OlderThan_OrEqual(timestamp, cutoff) == timestamp <= cutoff

\* WHERE timestamp < ?
OlderThan(timestamp, cutoff) == timestamp < cutoff

\* DELETE FROM table WHERE timestamp < cutoff
DeleteOlder(tbl, cutoff) == {r \in tbl : ~OlderThan(r.timestamp, cutoff)}

\* cleanup_old_data on a store [tables, kv, ledger] at time now: the three
\* DELETEs and the commit; when a statement raises, the connection is closed
\* without commit and the handler logs
CleanupOldData(store, now_, raises) ==
    LET cutoff == now_ - DATA_RETENTION_DAYS
        swept == [t \in DOMAIN store.tables |-> DeleteOlder(store.tables[t], cutoff)]
    IN  [store EXCEPT !.tables = IF raises THEN store.tables ELSE swept]

SweepNows == {301, 302}

SweepStamps == {(301 - DATA_RETENTION_DAYS) - 2 + i : i \in 1..MaxStamps}

\* the rows a table may hold: one of "SE" for some of the days
SweepTables ==
    {{TableRow(day_, day_, "SE", <<>>) : day_ \in days} : days \in SUBSET SweepStamps}

SweepStores ==
    {[tables |-> [energy_status |-> a, energy_types |-> b, spot_prices |-> c],
      kv |-> row, ledger |-> UpTo(SCHEMA_TARGET_VERSION)] :
        a \in SweepTables, b \in SweepTables, c \in SweepTables,
        row \in {NoRow, [present |-> TRUE, value |-> Dumps(FALLBACK_EXCHANGE_RATES)]}}

InitSweep ==
    /\ AtRest
    /\ \E store \in SweepStores, now_ \in SweepNows :
        CallOf("cleanup_old_data", [store |-> store, now |-> now_])

CallCleanupOldData ==
    /\ fn = "cleanup_old_data" /\ ~called
    /\ \E raises \in BOOLEAN :
        out' = [store |-> CleanupOldData(arg.store, arg.now, raises), raised |-> raises]
    /\ called' = TRUE
    /\ UNCHANGED <<fn, arg>>
    /\ UNCHANGED <<migVars, fetchVars, ingestVars, taskVars, ratesVars>>

NextSweep == CallCleanupOldData

SpecSweep == InitSweep /\ [][NextSweep]_vars

\* C27: a sweep that goes through deletes from the three time-series tables
\* exactly the rows stamped before now minus 200 days; the newer rows, the
\* key-value store and the schema ledger are as before (and a sweep that
\* fails changes nothing).
C27_SweepDeletesOlderRows ==
    (fn = "cleanup_old_data" /\ called) =>
        /\ out.store.kv = arg.store.kv
        /\ out.store.ledger = arg.store.ledger
        /\ \A t \in {"energy_status", "energy_types", "spot_prices"} :
            out.store.tables[t] =
                IF out.raised THEN arg.store.tables[t]
                ELSE {r \in arg.store.tables[t] : r.timestamp >= arg.now - 200}

\* a sweep went through on a store with rows older than the window, a row
\* stamped with the cutoff itself and newer rows
C27_Witness ==
    /\ fn = "cleanup_old_data" /\ called /\ ~out.raised
    /\ \E r \in arg.store.tables.spot_prices : r.timestamp < arg.now - 200
    /\ \E r \in arg.store.tables.spot_prices : r.timestamp = arg.now - 200
    /\ \E r \in arg.store.tables.energy_status : r.timestamp > arg.now - 200
    /\ out.store.tables # arg.store.tables
    /\ arg.store.kv.present

-----------------------------------------------------------------------------
(* Part VI: is_spike_value.  A value here is a whole number of units of    *)
(* 1e-10, so that values below the 1e-9 of line 596 exist; every value     *)
(* given is a multiple of 4 units, so that no median and no MAD rounds.    *)

\* 1e-9 in units of 1e-10
FineNearZero == 10

\* 0.01 in units of 1e-10
FineTolerance == 100000000

SpikeHistoryValues == {0, 4, 2 * FineTolerance}

SpikeNewValues ==
    {0, 4, FineTolerance, FineTolerance + 4, 2 * FineTolerance,
     3 * FineTolerance, 3 * FineTolerance + 4, 4 * FineTolerance,
     8 * FineTolerance}

SpikeHistories == UNION {[1..n -> SpikeHistoryValues] : n \in 0..MaxHistory}

InitSpike ==
    /\ AtRest
    /\ \E new_value \in SpikeNewValues, recent_values \in SpikeHistories :
        CallOf("is_spike_value", [new_value |-> new_value, recent_values |-> recent_values])

\* is_spike_value(new_value, recent_values), and what the two cycles do
\* with its verdict: the grid cycle stores the value or the median (lines
\* 671-680), the price cycle keeps or skips the point (lines 847-854)
CallIsSpikeValue ==
    /\ fn = "is_spike_value" /\ ~called
    /\ LET spike == IsSpike(arg.new_value, arg.recent_values, FineNearZero, FineTolerance)
       IN  out' = [spike |-> spike,
                   stored |-> ClampedValue(arg.new_value, arg.recent_values, spike),
                   kept |-> KeepsPoint(spike)]
    /\ called' = TRUE
    /\ UNCHANGED <<fn, arg>>
    /\ UNCHANGED <<migVars, fetchVars, ingestVars, taskVars, ratesVars>>

NextSpike == CallIsSpikeValue

SpecSpike == InitSpike /\ [][NextSpike]_vars

\* the k-th smallest member of a list, by counting
Kth(values, k) ==
    CHOOSE x \in {values[i] : i \in 1..Len(values)} :
        /\ Cardinality({i \in 1..Len(values) : values[i] < x}) < k
        /\ Cardinality({i \in 1..Len(values) : values[i] <= x}) >= k

\* the median: the middle value, of an even number of values the mean of
\* the two middle ones
MedianOf(values) ==
    LET n == Len(values)
    IN  IF n % 2 = 1 THEN Kth(values, (n + 1) \div 2)
        ELSE (Kth(values, n \div 2) + Kth(values, n \div 2 + 1)) \div 2

MadOf(values) ==
    MedianOf([i \in 1..Len(values) |-> Abs(values[i] - MedianOf(values))])

SpikeCalled == fn = "is_spike_value" /\ called

\* the history holds at least minHistory values, all equal to v
ConstantHistory(v) ==
    /\ Len(arg.recent_values) >= SPIKE_MIN_HISTORY
    /\ \A i \in 1..Len(arg.recent_values) : arg.recent_values[i] = v

\* C22: with at least minHistory values in the history and MAD > 0 the
\* verdict is spike if and only if |newValue - median| > k * MAD, the median
\* of an even-length history being the mean of its two middle values.
C22_MadRule ==
    (SpikeCalled /\ Len(arg.recent_values) >= SPIKE_MIN_HISTORY
        /\ MadOf(arg.recent_values) > 0) =>
        (out.spike <=> Abs(arg.new_value - MedianOf(arg.recent_values))
                            > 5 * MadOf(arg.recent_values))

\* an even-length history with two different middle values and a new value
\* that is a spike by the mean of the two but not by the upper one
C22_Witness ==
    /\ SpikeCalled /\ out.spike
    /\ Len(arg.recent_values) = SPIKE_MIN_HISTORY
    /\ MadOf(arg.recent_values) > 0
    /\ Kth(arg.recent_values, 3) = 0
    /\ Kth(arg.recent_values, 4) = 2 * FineTolerance
    /\ arg.new_value = 8 * FineTolerance

C25_ShortHistoryAccepts ==
    (SpikeCalled /\ Len(arg.recent_values) < 6) =>
        /\ ~out.spike
        /\ out.stored = arg.new_value
        /\ out.kept

\* five equal values in the history and a new value far from them
C25_Witness ==
    /\ SpikeCalled
    /\ Len(arg.recent_values) = 5
    /\ \A i \in 1..5 : arg.recent_values[i] = 4
    /\ arg.new_value = 4 * FineTolerance
    /\ out.kept

-----------------------------------------------------------------------------
(* Part III again: price cycles on a store whose prices stand at one       *)
(* level.                                                                  *)

\* the level: the price of the flat history
ShiftLevel == HistoryPrice("flat", 1) * UnitsPerMilli

\* the hours of the store: the first with another price, then
\* SPIKE_WINDOW_SIZE hours at the level
ShiftHours == SPIKE_WINDOW_SIZE + 1

ShiftStore ==
    [IngestStore("none") EXCEPT
        !.spot_prices =
            {TableRow(i, i, z, [price |-> IF i = 1 THEN 20000 * UnitsPerMilli
                                          ELSE ShiftLevel]) :
                i \in 1..ShiftHours, z \in PriceZones}]

\* upstream points for the last stored hour and the next: 60% below the
\* level, within the band, a hundred times the level
ShiftPoints ==
    {[timestamp |-> h, zone |-> z, price |-> m * UnitsPerMilli] :
        h \in {ShiftHours, ShiftHours + 1}, z \in PriceZones,
        m \in {20000, 50200, 5000000}}

ShiftResults == UNION {[1..n -> ShiftPoints] : n \in 1..MaxPoints}

InitShift ==
    /\ MigInit(VersionedStore(SCHEMA_TARGET_VERSION))
    /\ FetchIdle
    /\ TasksIdle
    /\ RatesIdle
    /\ UnitIdle
    /\ tables = ShiftStore
    /\ nextId = [IngestNextId("none") EXCEPT !.spot_prices = ShiftHours + 1]
    /\ view = ClosedView
    /\ ipc = "idle"
    /\ ikind = "none"
    /\ data = <<>>
    /\ ts = 0
    /\ idx = 0
    /\ judged = <<>>
    /\ istatus = [k \in {"grid", "price"} |-> "none"]
    /\ now = ShiftHours + 1
    /\ icycles = 0
    /\ atStart = tables

NextShift ==
    \/ StartPriceWith(ShiftResults)
    \/ PricePoint
    \/ IngestCommit
    \/ IngestFails
    \/ EndIngest

SpecShift == InitShift /\ [][NextShift]_vars

\* the SPIKE_WINDOW_SIZE most recent prices of the zone all equal m
AtLevel(tbl, zone, m) ==
    LET recent == GetRecentValues(tbl, "price", zone, 24)
    IN  /\ Len(recent) = 24
        /\ \A i \in 1..24 : recent[i] = m

\* C28: a price cycle that starts with the 24 most recent stored prices of
\* the zone all at a level m, |m| >= 1e-9, and whose upstream prices all
\* differ from m by more than 50% of |m| judges every one of them a spike
\* and stores no row: the rows of the zone are as the cycle found them, and
\* so the next cycle starts at the same level.
C28_LevelShiftHaltsIngestion ==
    \A zone \in PriceZones :
        (/\ ikind = "price"
         /\ ShiftLevel # 0
         /\ AtLevel(atStart.spot_prices, zone, ShiftLevel)
         /\ \A j \in Judgements : 2 * Abs(j.value - ShiftLevel) > Abs(ShiftLevel))
        => /\ \A j \in Judgements : j.spike
           /\ CycleTables.spot_prices = atStart.spot_prices
           /\ tables.spot_prices = atStart.spot_prices

\* the second cycle in a row has committed without a row stored: one of its
\* points lay above the level and one below, and the store is as at first
C28_Witness ==
    /\ icycles = 2 /\ ikind = "price" /\ ipc = "done"
    /\ istatus["price"] = "success"
    /\ tables = ShiftStore
    /\ Len(judged) = 2
    /\ judged[1].value > ShiftLevel /\ judged[2].value < ShiftLevel
    /\ judged[2].timestamp = ShiftHours + 1

-----------------------------------------------------------------------------
(* Part I again: a run of init_db after a run that did not finish.         *)

\* the tables of versions 1..target
SchemaTables == {"energy_status", "energy_types", "spot_prices", "key_value_store"}

\* what run p found was left by a run that did not finish: tables or the
\* empty ledger table created, ledger rows missing
FoundPartial(p) ==
    /\ snap[p] # origin
    /\ LedgerTable \in snap[p].objs
    /\ SeqMax(snap[p].ledger) < SCHEMA_TARGET_VERSION

\* C29: a run of init_db that has returned, whatever the store it found --
\* the store of a run that failed or stopped at any point included -- has
\* left every table of versions 1..target in the store and the target as the
\* largest version of the ledger.
C29_RerunCompletes ==
    \A p \in Workers :
        (initState[p] = "ok" /\ pc[p] # "boot") =>
            /\ SchemaTables \subseteq db.objs
            /\ SeqMax(db.ledger) = SCHEMA_TARGET_VERSION

\* a run on a pre-versioning store failed after it had created the ledger
\* table; the next run found the table empty, some tables there, and went
\* through
C29_Witness ==
    \E p, q \in Workers :
        /\ p # q
        /\ origin = LegacyStore(1)
        /\ initState[p] = "failed" /\ wrote[p] # <<>>
        /\ FoundPartial(q)
        /\ snap[q].ledger = <<>>
        /\ initState[q] = "ok"
        /\ wrote[q] = UpTo(SCHEMA_TARGET_VERSION)

====
